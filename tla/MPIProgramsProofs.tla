---------------------------- MODULE MPIProgramsProofs ---------------------------
(***************************************************************************)
(* Invariance proofs for two of the MPI programs: Wf_mpi.cpp, whose ranks  *)
(* all have the computed part of the matrix, and nkeys-par.cpp, whose      *)
(* ranks each repeat what the sequential program does.                     *)
(*                                                                         *)
(* For nkeys-par the argument has three layers.  First the rows of a       *)
(* product: the members of a communicator share them out, so that a        *)
(* reduction of ranks that agree gives the whole product.  Then            *)
(* nkeys-seq, as a function from a stream of pairs and a number of turns.  *)
(* Then the ranks: each of them has what that function gives for its own   *)
(* turn, and two ranks that are not in the same turn have no product       *)
(* between them that only one of them would reduce.                        *)
(***************************************************************************)
EXTENDS MPIPrograms, FiniteLemmas

-----------------------------------------------------------------------------
(* Wf_mpi.cpp                                                               *)

WfPhase == {"first", "split", "gather", "last", "end"}

(* Where the loops are.                                                     *)
InItsLoop(r) ==
  /\ i[r] >= 1
  /\ phase[r] = "first" => i[r] < Wf!low_threshold
  /\ phase[r] \in {"split", "gather"} => Wf!low_threshold <= i[r] /\ i[r] < Wf!up_threshold
  /\ phase[r] = "end" => i[r] >= Wf!up_threshold

(* The elements of the diagonals that r has behind it are computed.         *)
Behind(r) == \A c \in Wf!Cell : c[1] < i[r] => M[r][c] = "ok"

(* No rank is in the second loop before all are past the first one or at     *)
(* its end; those in the second loop are in the same diagonal.              *)
Together ==
  \A r, s \in Wf!Rank :
    /\ phase[r] = "first" /\ Wf!low_threshold < Wf!up_threshold =>
         phase[s] = "first" \/ (phase[s] \in {"split", "gather"} /\ i[s] = Wf!low_threshold)
    /\ phase[r] \in {"split", "gather"} =>
         phase[s] = "first" \/ (phase[s] \in {"split", "gather"} /\ i[s] = i[r])

(* The values r brings to the Allgather.                                    *)
Brought(r) ==
  phase[r] = "gather" =>
    \A s \in 0 .. Wf!task_size(i[r]) - 1 :
      r * Wf!task_size(i[r]) + s < N - i[r] => local[r][s] = "ok"

WfInv ==
  /\ M \in [Wf!Rank -> [Wf!Cell -> Wf!Value]]
  /\ i \in [Wf!Rank -> Nat]
  /\ phase \in [Wf!Rank -> WfPhase]
  /\ local = [r \in Wf!Rank |-> local[r]]
  /\ \A r \in Wf!Rank : InItsLoop(r) /\ Behind(r) /\ Brought(r)
  /\ Together

(* The elements by their diagonal and their number in it.                   *)
LEMMA Cells ==
  /\ \A d \in Nat, x \in Nat : x < N - d <=> <<d, x>> \in Wf!Cell
  /\ \A c \in Wf!Cell : /\ c = <<c[1], c[2]>> /\ c[1] \in Nat /\ c[2] \in Nat
                        /\ c[1] < N /\ c[2] < N - c[1]
  /\ \A d \in Nat : \A c \in Wf!Cell : c \in Wf!Diag(d) <=> c[1] = d
<1>1. N \in Nat
  BY SizesAssumption
<1>2. \A d : Wf!W(0)!Diag(d) = {d} \X (0 .. N - 1 - d)
  BY DEF Wf!W!Diag
<1>3. Wf!Cell = UNION {{d} \X (0 .. N - 1 - d) : d \in 0 .. N - 1}
  BY <1>2 DEF Wf!Cell, Wf!W!Cell
<1>4. \A c \in Wf!Cell : \E d \in 0 .. N - 1 : c \in {d} \X (0 .. N - 1 - d)
  BY <1>3
<1>5. \A c \in Wf!Cell : /\ c = <<c[1], c[2]>> /\ c[1] \in Nat /\ c[2] \in Nat
                         /\ c[1] < N /\ c[2] < N - c[1]
  BY <1>1, <1>4
<1>6. ASSUME NEW d \in Nat, NEW x \in Nat
      PROVE  x < N - d <=> <<d, x>> \in Wf!Cell
  <2>1. ASSUME x < N - d PROVE <<d, x>> \in Wf!Cell
    <3>1. d \in 0 .. N - 1 /\ <<d, x>> \in {d} \X (0 .. N - 1 - d)
      BY <1>1, <2>1
    <3>. QED
      BY <1>3, <3>1
  <2>2. ASSUME <<d, x>> \in Wf!Cell PROVE x < N - d
    <3>. DEFINE c == <<d, x>>
    <3>1. c[2] < N - c[1]
      BY <1>5, <2>2
    <3>. QED
      BY <3>1
  <2>. QED
    BY <2>1, <2>2
<1>7. ASSUME NEW d \in Nat, NEW c \in Wf!Cell
      PROVE  c \in Wf!Diag(d) <=> c[1] = d
  <2>1. Wf!Diag(d) = {d} \X (0 .. N - 1 - d)
    BY <1>2 DEF Wf!Diag
  <2>2. c = <<c[1], c[2]>> /\ c[2] \in Nat /\ c[1] \in Nat /\ c[2] < N - c[1]
    BY <1>5
  <2>. QED
    BY <1>1, <2>1, <2>2
<1>. QED
  BY <1>5, <1>6, <1>7

(* An element comes out right when everything on the earlier diagonals is.  *)
LEMMA DotProductRight ==
  ASSUME NEW m, NEW c \in Wf!Cell, c[1] >= 1, \A e \in Wf!Cell : e[1] < c[1] => m[e] = "ok"
  PROVE  Wf!W(0)!DotProduct(m, c) = "ok"
<1>1. /\ c[1] \in Nat /\ c[2] \in Nat /\ c[1] < N /\ c[2] < N - c[1] /\ N \in Nat
  BY Cells, SizesAssumption
<1>2. Wf!W(0)!Reads(c) = UNION {{<<c[1] - k - 1, c[2]>>, <<c[1] - k - 1, c[2] + k + 1>>}
                                 : k \in 0 .. c[1] - 1}
  BY DEF Wf!W!Reads, Wf!W!Factors
<1>3. ASSUME NEW k \in 0 .. c[1] - 1
      PROVE  /\ <<c[1] - k - 1, c[2]>> \in Wf!Cell /\ <<c[1] - k - 1, c[2] + k + 1>> \in Wf!Cell
             /\ c[1] - k - 1 < c[1]
  <2>1. /\ c[1] - k - 1 \in Nat /\ c[2] + k + 1 \in Nat /\ c[1] - k - 1 < c[1]
        /\ c[2] < N - (c[1] - k - 1) /\ c[2] + k + 1 < N - (c[1] - k - 1)
    BY <1>1
  <2>. QED
    BY <1>1, <2>1, Cells
<1>4. \A e \in Wf!W(0)!Reads(c) : m[e] = "ok"
  <2>. SUFFICES ASSUME NEW e \in Wf!W(0)!Reads(c) PROVE m[e] = "ok"
    OBVIOUS
  <2>1. PICK k \in 0 .. c[1] - 1 :
          e \in {<<c[1] - k - 1, c[2]>>, <<c[1] - k - 1, c[2] + k + 1>>}
    BY <1>2
  <2>2. e[1] = c[1] - k - 1
    BY <2>1
  <2>. QED
    BY <1>3, <2>1, <2>2
<1>. QED
  BY <1>1, <1>4 DEF Wf!W!DotProduct

(* One more diagonal.                                                       *)
LEMMA DiagonalComputed ==
  ASSUME NEW m \in [Wf!Cell -> Wf!Value], NEW d \in Nat \ {0},
         \A c \in Wf!Cell : c[1] < d => m[c] = "ok"
  PROVE  /\ Wf!ComputeDiagonal(m, d) \in [Wf!Cell -> Wf!Value]
         /\ \A c \in Wf!Cell : c[1] < d + 1 => Wf!ComputeDiagonal(m, d)[c] = "ok"
<1>1. \A x : Wf!W(0)!DotProduct(m, x) \in Wf!Value
  BY DEF Wf!W!DotProduct, Wf!Value, Wf!W!Value
<1>2. Wf!ComputeDiagonal(m, d) \in [Wf!Cell -> Wf!Value]
  BY <1>1 DEF Wf!ComputeDiagonal
<1>3. ASSUME NEW c \in Wf!Cell, c[1] < d + 1
      PROVE  Wf!ComputeDiagonal(m, d)[c] = "ok"
  <2>1. c[1] \in Nat /\ (c \in Wf!Diag(d) <=> c[1] = d)
    BY Cells
  <2>2. CASE c[1] = d
    <3>1. Wf!W(0)!DotProduct(m, c) = "ok"
      BY <2>2, DotProductRight
    <3>. QED
      BY <2>1, <2>2, <3>1 DEF Wf!ComputeDiagonal
  <2>3. CASE c[1] < d
    BY <2>1, <2>3 DEF Wf!ComputeDiagonal
  <2>. QED
    BY <1>3, <2>1, <2>2, <2>3
<1>. QED
  BY <1>2, <1>3

(* The ranks' shares of a diagonal cover it.                                *)
LEMMA SlotOf ==
  ASSUME NEW d \in Nat \ {0}, d < N, NEW x \in Nat, x < N - d
  PROVE  LET t == Wf!task_size(d)
         IN  /\ t \in Nat \ {0} /\ x \in 0 .. mpiSize * t - 1
             /\ x \div t \in Wf!Rank /\ x % t \in 0 .. t - 1 /\ (x \div t) * t + (x % t) = x
<1>. DEFINE a == N - d
            q == a \div mpiSize
            t == q + 1
<1>1. a \in Nat /\ mpiSize \in Nat \ {0}
  BY SizesAssumption
<1>2. q \in Nat /\ a % mpiSize \in 0 .. mpiSize - 1 /\ a = mpiSize * q + (a % mpiSize)
  BY <1>1, Division
<1>3. t = Wf!task_size(d)
  BY DEF Wf!task_size
<1>. HIDE DEF q
<1>4. t \in Nat \ {0} /\ mpiSize * t = mpiSize * q + mpiSize /\ mpiSize * q \in Nat
  BY <1>1, <1>2
<1>5. x < mpiSize * t
  BY <1>1, <1>2, <1>4
<1>. HIDE DEF t, a
<1>6. x \div t \in Nat /\ x % t \in 0 .. t - 1 /\ x = t * (x \div t) + (x % t)
  BY <1>4, Division
<1>. DEFINE k == x \div t
<1>. HIDE DEF k
<1>7. k \in Nat /\ t * k = k * t /\ t * k <= x
  BY <1>4, <1>6 DEF k
<1>8. k < mpiSize
  <2>1. SUFFICES ASSUME k >= mpiSize PROVE FALSE
    BY <1>1, <1>7
  <2>2. PICK j \in Nat : k = mpiSize + j
    <3>1. k - mpiSize \in Nat /\ k = mpiSize + (k - mpiSize)
      BY <1>1, <1>7, <2>1
    <3>. QED
      BY <3>1
  <2>3. t * k = t * mpiSize + t * j /\ t * j \in Nat /\ t * mpiSize = mpiSize * t /\ mpiSize * t \in Nat
    BY <1>1, <1>4, <2>2
  <2>. QED
    BY <1>5, <1>7, <2>3
<1>9. k \in Wf!Rank
  BY <1>1, <1>7, <1>8 DEF Wf!Rank
<1>10. x \in 0 .. mpiSize * t - 1
  BY <1>1, <1>4, <1>5
<1>. QED
  BY <1>3, <1>4, <1>6, <1>7, <1>9, <1>10 DEF k

(* The thresholds, with no more ranks than diagonals.                       *)
LEMMA Thresholds ==
  ASSUME mpiSize <= N
  PROVE  /\ Wf!low_threshold \in Nat \ {0} /\ Wf!up_threshold \in Nat \ {0}
         /\ Wf!up_threshold <= N /\ N \in Nat \ {0} /\ 0 \in Wf!Rank
BY SizesAssumption DEF Wf!low_threshold, Wf!up_threshold, Wf!Rank

(* Where a rank goes with the diagonals before d behind it.                 *)
LEMMA EnterWhere ==
  ASSUME mpiSize <= N, NEW r \in Wf!Rank, NEW d \in Nat \ {0}, NEW e, e = Wf!Enter(r, d),
         NEW j, j = IF e = "last" THEN Wf!up_threshold ELSE d
  PROVE  /\ e \in {"first", "split", "last", "end"} /\ j \in Nat \ {0} /\ j <= d
         /\ e = "first" => j = d /\ d < Wf!low_threshold
         /\ e = "split" => j = d /\ Wf!low_threshold <= d /\ d < Wf!up_threshold
         /\ e \in {"last", "end"} => j >= Wf!up_threshold /\ d >= Wf!low_threshold
<1>1. /\ Wf!low_threshold \in Nat \ {0} /\ Wf!up_threshold \in Nat \ {0}
  BY Thresholds
<1>. QED
  BY <1>1 DEF Wf!Enter

(* In MPIInit every rank has diagonal 0, and is before diagonal 1.          *)
LEMMA WfInitially ==
  ASSUME mpiSize <= N, Wf!MPIInit
  PROVE  WfInv
<1>. USE DEF Wf!MPIInit
<1>1. M \in [Wf!Rank -> [Wf!Cell -> Wf!Value]] /\ \A r \in Wf!Rank : \A c \in Wf!Cell : c[1] = 0 => M[r][c] = "ok"
  BY DEF Wf!W!InitialM, Wf!Value, Wf!W!Value, Wf!Cell
<1>2. \A r \in Wf!Rank : /\ phase[r] = Wf!Enter(r, 1)
                         /\ i[r] = IF phase[r] = "last" THEN Wf!up_threshold ELSE 1
  OBVIOUS
<1>3. \A r \in Wf!Rank :
         /\ phase[r] \in {"first", "split", "last", "end"} /\ i[r] \in Nat \ {0} /\ i[r] <= 1
         /\ phase[r] = "first" => i[r] = 1 /\ 1 < Wf!low_threshold
         /\ phase[r] = "split" => i[r] = 1 /\ Wf!low_threshold <= 1 /\ 1 < Wf!up_threshold
         /\ phase[r] \in {"last", "end"} => i[r] >= Wf!up_threshold /\ 1 >= Wf!low_threshold
  BY <1>2, EnterWhere
<1>4. i \in [Wf!Rank -> Nat] /\ phase \in [Wf!Rank -> WfPhase]
  <2>1. i = [r \in Wf!Rank |-> i[r]] /\ phase = [r \in Wf!Rank |-> phase[r]]
    OBVIOUS
  <2>. HIDE DEF Wf!MPIInit
  <2>. QED
    BY <1>3, <2>1 DEF WfPhase
<1>7. local = [r \in Wf!Rank |-> local[r]]
  OBVIOUS
<1>. HIDE DEF Wf!MPIInit
<1>5. \A r \in Wf!Rank : InItsLoop(r) /\ Behind(r) /\ Brought(r)
  <2>. SUFFICES ASSUME NEW r \in Wf!Rank PROVE InItsLoop(r) /\ Behind(r) /\ Brought(r)
    OBVIOUS
  <2>1. InItsLoop(r)
    BY <1>3, Thresholds DEF InItsLoop
  <2>2. Behind(r)
    <3>1. \A c \in Wf!Cell : c[1] \in Nat
      BY Cells
    <3>2. i[r] \in Nat \ {0} /\ i[r] <= 1
      BY <1>3
    <3>3. \A c \in Wf!Cell : c[1] < i[r] => c[1] = 0
      BY <3>1, <3>2
    <3>. QED
      BY <1>1, <3>3 DEF Behind
  <2>3. Brought(r)
    BY <1>3 DEF Brought
  <2>. QED
    BY <2>1, <2>2, <2>3
<1>6. Together
  <2>1. \A r, s \in Wf!Rank : phase[r] \in {"split", "gather"} => phase[s] = "split" /\ i[s] = i[r]
    BY <1>2, <1>3, Thresholds DEF Wf!Enter
  <2>2. \A r, s \in Wf!Rank : phase[r] = "first" => phase[s] = "first"
    BY <1>2, <1>3, Thresholds DEF Wf!Enter
  <2>. QED
    BY <2>1, <2>2 DEF Together
<1>. QED
  BY <1>1, <1>4, <1>5, <1>6, <1>7 DEF WfInv

(* What a rank does on its own keeps what is said of the other ranks.       *)
LEMMA FirstDiagonalKeeps ==
  ASSUME mpiSize <= N, WfInv, NEW s \in Wf!Rank, Wf!FirstDiagonal(s)
  PROVE  WfInv'
<1>. USE DEF WfInv
<1>. DEFINE m == Wf!ComputeDiagonal(M[s], i[s])
            d == i[s] + 1
            e == Wf!Enter(s, d)
            j == IF e = "last" THEN Wf!up_threshold ELSE d
<1>1. /\ phase[s] = "first" /\ M' = [M EXCEPT ![s] = m] /\ UNCHANGED local
      /\ phase' = [phase EXCEPT ![s] = e] /\ i' = [i EXCEPT ![s] = j]
  BY DEF Wf!FirstDiagonal, Wf!Advance
<1>2. i[s] \in Nat \ {0} /\ i[s] < Wf!low_threshold /\ \A c \in Wf!Cell : c[1] < i[s] => M[s][c] = "ok"
  BY <1>1 DEF InItsLoop, Behind
<1>3. m \in [Wf!Cell -> Wf!Value] /\ \A c \in Wf!Cell : c[1] < d => m[c] = "ok"
  BY <1>2, DiagonalComputed
<1>4. d \in Nat \ {0}
  BY <1>2
<1>. HIDE DEF m, d
<1>5. /\ e \in {"first", "split", "last", "end"} /\ j \in Nat \ {0} /\ j <= d
      /\ e = "first" => j = d /\ d < Wf!low_threshold
      /\ e = "split" => j = d /\ Wf!low_threshold <= d /\ d < Wf!up_threshold
      /\ e \in {"last", "end"} => j >= Wf!up_threshold /\ d >= Wf!low_threshold
  BY <1>4, EnterWhere
<1>. HIDE DEF e, j
<1>6. /\ M' \in [Wf!Rank -> [Wf!Cell -> Wf!Value]] /\ i' \in [Wf!Rank -> Nat]
      /\ phase' \in [Wf!Rank -> WfPhase]
  BY <1>1, <1>3, <1>5 DEF WfPhase
<1>7. \A r \in Wf!Rank : IF r = s THEN M'[r] = m /\ i'[r] = j /\ phase'[r] = e
                         ELSE M'[r] = M[r] /\ i'[r] = i[r] /\ phase'[r] = phase[r]
  BY <1>1
<1>8. \A r \in Wf!Rank : InItsLoop(r)' /\ Behind(r)' /\ Brought(r)'
  <2>. SUFFICES ASSUME NEW r \in Wf!Rank PROVE InItsLoop(r)' /\ Behind(r)' /\ Brought(r)'
    OBVIOUS
  <2>1. CASE r # s
    BY <1>1, <1>7, <2>1 DEF InItsLoop, Behind, Brought
  <2>2. CASE r = s
    <3>1. InItsLoop(r)'
      BY <1>5, <1>7, <2>2 DEF InItsLoop
    <3>2. Behind(r)'
      <4>1. \A c \in Wf!Cell : c[1] \in Nat
        BY Cells
      <4>. QED
        BY <1>3, <1>4, <1>5, <1>7, <2>2, <4>1 DEF Behind
    <3>3. Brought(r)'
      BY <1>5, <1>7, <2>2 DEF Brought
    <3>. QED
      BY <3>1, <3>2, <3>3
  <2>. QED
    BY <2>1, <2>2
<1>9. Together'
  <2>1. e = "split" => j = Wf!low_threshold
    BY <1>2, <1>5, Thresholds DEF d
  <2>2. Wf!low_threshold < Wf!up_threshold => e \in {"first", "split"}
    <3>1. d <= Wf!low_threshold
      BY <1>2, Thresholds DEF d
    <3>. QED
      BY <1>4, <3>1, Thresholds DEF e, Wf!Enter
  <2>3. \A r \in Wf!Rank : phase[r] \in {"split", "gather"} => Wf!low_threshold < Wf!up_threshold
    BY Thresholds DEF InItsLoop
  <2>4. e \in {"split", "gather"} => Wf!low_threshold < Wf!up_threshold
    BY <1>4, <1>5, Thresholds
  <2>. QED
    BY <1>1, <1>5, <1>7, <2>1, <2>2, <2>3, <2>4 DEF Together
<1>10. local' = [r \in Wf!Rank |-> local'[r]]
  BY <1>1
<1>. QED
  BY <1>6, <1>8, <1>9, <1>10

(* compute_local: a rank computes its slice of a diagonal.                  *)
LEMMA ComputeLocalKeeps ==
  ASSUME mpiSize <= N, WfInv, NEW s \in Wf!Rank, Wf!ComputeLocal(s)
  PROVE  WfInv'
<1>. USE DEF WfInv
<1>. DEFINE t == Wf!task_size(i[s])
            d == i[s]
<1>1. /\ phase[s] = "split" /\ local' = [local EXCEPT ![s] = Wf!LocalValues(s, d)]
      /\ phase' = [phase EXCEPT ![s] = "gather"] /\ UNCHANGED <<M, i>>
  BY DEF Wf!ComputeLocal
<1>2. d \in Nat \ {0} /\ \A c \in Wf!Cell : c[1] < d => M[s][c] = "ok"
  BY <1>1 DEF InItsLoop, Behind
<1>3. phase' \in [Wf!Rank -> WfPhase] /\ local' = [r \in Wf!Rank |-> local'[r]]
  BY <1>1 DEF WfPhase
<1>4. \A r \in Wf!Rank : IF r = s THEN phase'[r] = "gather" ELSE phase'[r] = phase[r]
  BY <1>1
<1>5. Together'
  BY <1>1, <1>4 DEF Together
<1>6. \A r \in Wf!Rank : InItsLoop(r)' /\ Behind(r)'
  <2>. SUFFICES ASSUME NEW r \in Wf!Rank PROVE InItsLoop(r)' /\ Behind(r)'
    OBVIOUS
  <2>. QED
    BY <1>1, <1>4 DEF InItsLoop, Behind
<1>7. \A r \in Wf!Rank : Brought(r)'
  <2>. SUFFICES ASSUME NEW r \in Wf!Rank PROVE Brought(r)'
    OBVIOUS
  <2>1. CASE r # s
    <3>1. phase'[r] = phase[r] /\ i'[r] = i[r] /\ \A x : local'[r][x] = local[r][x]
      BY <1>1, <1>4, <2>1
    <3>. QED
      BY <3>1, <1>1 DEF Brought
  <2>2. CASE r = s
    <3>1. i' = i
      BY <1>1
    <3>2. local'[s] = Wf!LocalValues(s, d)
      BY <1>1
    <3>3. ASSUME NEW x \in 0 .. t - 1, s * t + x < N - d
          PROVE  local'[s][x] = "ok"
      <4>1. t \in Nat \ {0} /\ s \in Nat /\ N \in Nat /\ d < N
        <5>1. d < N
          BY <1>1, SizesAssumption, Thresholds DEF InItsLoop
        <5>2. 0 \in Nat /\ 0 < N - d /\ s \in Nat /\ N \in Nat
          BY <1>2, <5>1, SizesAssumption DEF Wf!Rank
        <5>3. t \in Nat \ {0}
          BY <1>2, <5>1, <5>2, SlotOf
        <5>. QED
          BY <5>1, <5>2, <5>3
      <4>. HIDE DEF t, d
      <4>2. s * t \in Nat /\ (s + 1) * t = s * t + t
        BY <4>1
      <4>3. s * t + x \in Wf!Assigned(s, d)
        BY <1>2, <3>3, <4>1, <4>2 DEF Wf!Assigned, t, d
      <4>4. s * t + x \in Nat
        BY <4>1, <4>2
      <4>5. <<d, s * t + x>> \in Wf!Cell
        BY <1>2, <3>3, <4>4, Cells
      <4>6. Wf!W(0)!DotProduct(M[s], <<d, s * t + x>>) = "ok"
        BY <1>2, <4>5, DotProductRight
      <4>7. Wf!LocalValues(s, d)[x] = Wf!W(0)!DotProduct(M[s], <<d, s * t + x>>)
        BY <3>3, <4>3 DEF Wf!LocalValues, t, d
      <4>. QED
        BY <3>2, <4>6, <4>7
    <3>. QED
      BY <1>1, <2>2, <3>1, <3>3 DEF Brought
  <2>. QED
    BY <2>1, <2>2
<1>. QED
  BY <1>1, <1>3, <1>5, <1>6, <1>7

(* MPI_Allgather: every rank gets the slices of all, in rank order.         *)
LEMMA AllgatherKeeps ==
  ASSUME mpiSize <= N, WfInv, Wf!Allgather
  PROVE  WfInv'
<1>. USE DEF WfInv
<1>1. PICK d \in Nat \ {0} : /\ \A r \in Wf!Rank : phase[r] = "gather" /\ i[r] = d
                             /\ Wf!low_threshold <= d /\ d < Wf!up_threshold
  <2>1. 0 \in Wf!Rank /\ \A r \in Wf!Rank : phase[r] = "gather"
    BY Thresholds DEF Wf!Allgather
  <2>2. i[0] \in Nat \ {0} /\ Wf!low_threshold <= i[0] /\ i[0] < Wf!up_threshold
    BY <2>1 DEF InItsLoop
  <2>3. \A r \in Wf!Rank : i[r] = i[0]
    BY <2>1 DEF Together
  <2>. QED
    BY <2>1, <2>2, <2>3
<1>. DEFINE t == Wf!task_size(d)
            e(r) == Wf!Enter(r, d + 1)
            j(r) == IF e(r) = "last" THEN Wf!up_threshold ELSE d + 1
<1>2. d < N
  BY <1>1, Thresholds
<1>3. \A x \in Nat : x < N - d => Wf!diag_values(d)[x] = "ok"
  <2>. SUFFICES ASSUME NEW x \in Nat, x < N - d
                PROVE  Wf!diag_values(d)[x] = "ok"
    OBVIOUS
  <2>1. /\ t \in Nat \ {0} /\ x \in 0 .. mpiSize * t - 1
        /\ x \div t \in Wf!Rank /\ x % t \in 0 .. t - 1 /\ (x \div t) * t + (x % t) = x
    BY <1>2, SlotOf
  <2>2. Wf!diag_values(d)[x] = local[x \div t][x % t]
    BY <2>1 DEF Wf!diag_values
  <2>3. \A r \in Wf!Rank : \A y \in 0 .. t - 1 : r * t + y < N - d => local[r][y] = "ok"
    BY <1>1 DEF Brought
  <2>. HIDE DEF t
  <2>4. local[x \div t][x % t] = "ok"
    BY <2>1, <2>3
  <2>. QED
    BY <2>2, <2>4
<1>4. \A c \in Wf!Cell : c[1] = d => Wf!diag_values(d)[c[2]] = "ok"
  BY <1>3, Cells
<1>5. ASSUME NEW r \in Wf!Rank
      PROVE  /\ M'[r] \in [Wf!Cell -> Wf!Value]
             /\ \A c \in Wf!Cell : c[1] < d + 1 => M'[r][c] = "ok"
  <2>1. M'[r] = [c \in Wf!Cell |-> IF c \in Wf!Diag(d) THEN Wf!diag_values(d)[c[2]] ELSE M[r][c]]
    BY <1>1 DEF Wf!Allgather
  <2>2. \A c \in Wf!Cell : c[1] \in Nat /\ (c \in Wf!Diag(d) <=> c[1] = d)
    BY Cells
  <2>3. \A c \in Wf!Cell : M'[r][c] = IF c[1] = d THEN "ok" ELSE M[r][c]
    BY <1>4, <2>1, <2>2
  <2>4. "ok" \in Wf!Value /\ M[r] \in [Wf!Cell -> Wf!Value]
    BY <1>1 DEF Wf!Value, Wf!W!Value
  <2>5. \A c \in Wf!Cell : c[1] < d => M[r][c] = "ok"
    BY <1>1 DEF Behind
  <2>6. \A c \in Wf!Cell : c[1] < d + 1 => c[1] < d \/ c[1] = d
    <3>1. ASSUME NEW c \in Wf!Cell, c[1] < d + 1 PROVE c[1] < d \/ c[1] = d
      <4>1. c[1] \in Nat /\ d \in Nat
        BY <1>1, <2>2
      <4>. HIDE DEF WfInv
      <4>. QED
        BY <3>1, <4>1
    <3>. QED
      BY <3>1
  <2>7. M'[r] = [c \in Wf!Cell |-> IF c[1] = d THEN "ok" ELSE M[r][c]]
    BY <2>1, <2>3
  <2>8. M'[r] \in [Wf!Cell -> Wf!Value]
    BY <2>4, <2>7
  <2>. QED
    BY <2>3, <2>5, <2>6, <2>8
<1>6. /\ M' = [r \in Wf!Rank |-> M'[r]] /\ local' = [r \in Wf!Rank |-> local'[r]]
      /\ i' = [r \in Wf!Rank |-> i'[r]] /\ phase' = [r \in Wf!Rank |-> phase'[r]]
  BY DEF Wf!Allgather
<1>7. \A r \in Wf!Rank : phase'[r] = e(r) /\ i'[r] = j(r)
  BY <1>1 DEF Wf!Allgather
<1>8. \A r \in Wf!Rank :
         /\ e(r) \in {"first", "split", "last", "end"} /\ j(r) \in Nat \ {0} /\ j(r) <= d + 1
         /\ e(r) = "first" => j(r) = d + 1 /\ d + 1 < Wf!low_threshold
         /\ e(r) = "split" => j(r) = d + 1 /\ Wf!low_threshold <= d + 1 /\ d + 1 < Wf!up_threshold
         /\ e(r) \in {"last", "end"} => j(r) >= Wf!up_threshold /\ d + 1 >= Wf!low_threshold
  <2>1. d + 1 \in Nat \ {0}
    BY <1>1
  <2>. QED
    BY <2>1, EnterWhere
<1>9. \A r \in Wf!Rank : e(r) # "first" /\ (e(r) = "split" => \A s \in Wf!Rank : e(s) = "split")
  BY <1>1, Thresholds DEF Wf!Enter
<1>. HIDE DEF e, j
<1>10. /\ M' \in [Wf!Rank -> [Wf!Cell -> Wf!Value]] /\ i' \in [Wf!Rank -> Nat]
       /\ phase' \in [Wf!Rank -> WfPhase]
  BY <1>5, <1>6, <1>7, <1>8 DEF WfPhase
<1>11. ASSUME NEW r \in Wf!Rank PROVE InItsLoop(r)' /\ Behind(r)' /\ Brought(r)'
  <2>1. InItsLoop(r)' /\ Brought(r)'
    BY <1>7, <1>8 DEF InItsLoop, Brought
  <2>2. Behind(r)'
    <3>1. \A c \in Wf!Cell : c[1] \in Nat
      BY Cells
    <3>2. \A c \in Wf!Cell : c[1] < i'[r] => c[1] < d + 1
      BY <1>7, <1>8, <3>1
    <3>. QED
      BY <1>5, <3>2 DEF Behind
  <2>. QED
    BY <2>1, <2>2
<1>12. Together'
  BY <1>7, <1>8, <1>9 DEF Together
<1>. QED
  BY <1>6, <1>10, <1>11, <1>12

(* A diagonal that rank 0 computes alone at the end.                        *)
LEMMA LastDiagonalKeeps ==
  ASSUME mpiSize <= N, WfInv, NEW s \in Wf!Rank, Wf!LastDiagonal(s)
  PROVE  WfInv'
<1>. USE DEF WfInv
<1>. DEFINE m == Wf!ComputeDiagonal(M[s], i[s])
<1>1. /\ phase[s] = "last" /\ M' = [M EXCEPT ![s] = m] /\ i' = [i EXCEPT ![s] = i[s] + 1]
      /\ UNCHANGED <<phase, local>>
  BY DEF Wf!LastDiagonal
<1>2. i[s] \in Nat \ {0} /\ \A c \in Wf!Cell : c[1] < i[s] => M[s][c] = "ok"
  BY DEF InItsLoop, Behind
<1>3. m \in [Wf!Cell -> Wf!Value] /\ \A c \in Wf!Cell : c[1] < i[s] + 1 => m[c] = "ok"
  BY <1>2, DiagonalComputed
<1>. HIDE DEF m
<1>4. M' \in [Wf!Rank -> [Wf!Cell -> Wf!Value]] /\ i' \in [Wf!Rank -> Nat]
  BY <1>1, <1>3
<1>5. \A r \in Wf!Rank : IF r = s THEN M'[r] = m /\ i'[r] = i[s] + 1
                         ELSE M'[r] = M[r] /\ i'[r] = i[r]
  BY <1>1
<1>6. ASSUME NEW r \in Wf!Rank PROVE InItsLoop(r)' /\ Behind(r)' /\ Brought(r)'
  <2>1. CASE r # s
    BY <1>1, <1>5, <2>1 DEF InItsLoop, Behind, Brought
  <2>2. CASE r = s
    BY <1>1, <1>2, <1>3, <1>5, <2>2 DEF InItsLoop, Behind, Brought
  <2>. QED
    BY <2>1, <2>2
<1>7. Together'
  BY <1>1, <1>5 DEF Together
<1>. QED
  BY <1>1, <1>4, <1>6, <1>7

(* A rank leaves the last loop.                                             *)
LEMMA WfFinishKeeps ==
  ASSUME mpiSize <= N, WfInv, NEW s \in Wf!Rank, Wf!Finish(s)
  PROVE  WfInv'
<1>. USE DEF WfInv
<1>1. /\ phase[s] = "last" /\ i[s] >= N
      /\ phase' = [phase EXCEPT ![s] = "end"] /\ UNCHANGED <<M, i, local>>
  BY SizesAssumption DEF Wf!Finish, Wf!InMatrix
<1>2. phase' \in [Wf!Rank -> WfPhase]
  BY <1>1 DEF WfPhase
<1>3. \A r \in Wf!Rank : IF r = s THEN phase'[r] = "end" ELSE phase'[r] = phase[r]
  BY <1>1
<1>4. ASSUME NEW r \in Wf!Rank PROVE InItsLoop(r)' /\ Behind(r)' /\ Brought(r)'
  <2>1. CASE r # s
    BY <1>1, <1>3, <2>1 DEF InItsLoop, Behind, Brought
  <2>2. CASE r = s
    BY <1>1, <1>3, <2>2, Thresholds DEF InItsLoop, Behind, Brought
  <2>. QED
    BY <2>1, <2>2
<1>5. Together'
  BY <1>1, <1>3 DEF Together
<1>. QED
  BY <1>1, <1>2, <1>4, <1>5

(* The invariant of all the programs: what is said of Wf_mpi holds when it  *)
(* runs.                                                                    *)
WavefrontInv == program = "Wf_mpi" => WfInv

(* The invariant in the initial states of all the programs.                 *)
LEMMA WavefrontInitially ==
  ASSUME mpiSize <= N, Init
  PROVE  WavefrontInv
BY WfInitially DEF Init, InitWith, WavefrontInit, WavefrontInv

(* A step of any program keeps the invariant of Wf_mpi.                     *)
LEMMA WavefrontStep ==
  ASSUME mpiSize <= N, WavefrontInv, [Next]_allVars
  PROVE  WavefrontInv'
<1>. SUFFICES ASSUME program' = "Wf_mpi" PROVE WfInv'
  BY DEF WavefrontInv
<1>1. ASSUME UNCHANGED <<program, wavefrontVars>> PROVE WfInv'
  BY <1>1 DEF WavefrontInv, WfInv, wavefrontVars, InItsLoop, Behind, Brought, Together
<1>2. ASSUME InWavefront(Wf!MPINext) PROVE WfInv'
  <2>1. program = "Wf_mpi" /\ WfInv /\ Wf!MPINext
    BY <1>2 DEF InWavefront, WavefrontInv
  <2>2. CASE Wf!Allgather
    BY <2>1, <2>2, AllgatherKeeps
  <2>3. ASSUME NEW s \in Wf!Rank, Wf!RankStep(s) PROVE WfInv'
    BY <2>1, <2>3, FirstDiagonalKeeps, ComputeLocalKeeps, LastDiagonalKeeps, WfFinishKeeps
    DEF Wf!RankStep
  <2>4. CASE Wf!Finalized
    BY <1>1, <1>2, <2>4 DEF Wf!Finalized, Wf!vars, wavefrontVars, InWavefront, vars
  <2>. QED
    BY <2>1, <2>2, <2>3, <2>4 DEF Wf!MPINext
<1>. QED
  BY <1>1, <1>2 DEF Next, Run, InKeys, InSort, Finalized, allVars, vars

(* A rank that is behind its diagonals has their elements.                  *)
LEMMA WavefrontImplies ==
  ASSUME mpiSize <= N, WavefrontInv
  PROVE  Replicated
<1>. SUFFICES ASSUME program = "Wf_mpi", NEW r \in Wf!Rank, NEW c \in Wf!Cell,
                     c[1] < (IF phase[r] = "end" /\ r # 0 THEN Wf!up_threshold ELSE i[r])
              PROVE  M[r][c] = "ok"
  BY DEF Replicated, Wf!Replicated
<1>1. WfInv /\ c[1] \in Nat /\ i[r] \in Nat
  BY Cells DEF WavefrontInv, WfInv
<1>2. c[1] < i[r]
  BY <1>1, Thresholds DEF WfInv, InItsLoop
<1>. QED
  BY <1>1, <1>2 DEF WfInv, Behind

(* Wf_mpi.cpp on at most as many ranks as the matrix has rows: whatever the *)
(* order in which the ranks work, every rank has the elements of all the    *)
(* diagonals it has behind it, as Wf_seq.cpp computes them.  One rank more  *)
(* and it is not so (the run wavefront_mpi_edge).                           *)
THEOREM EveryRankHasTheMatrix ==
  ASSUME mpiSize <= N
  PROVE  Spec => []Replicated
<1>1. Init => WavefrontInv
  BY WavefrontInitially
<1>2. WavefrontInv /\ [Next]_allVars => WavefrontInv'
  BY WavefrontStep
<1>3. WavefrontInv => Replicated
  BY WavefrontImplies
<1>. QED
  BY <1>1, <1>2, <1>3, PTL DEF Spec

-----------------------------------------------------------------------------
(* nkeys-par.cpp: the rows of a product, shared out.                        *)

(* The first row of the member with the number k, of c1 rows and cnt members. *)
FirstRow(c1, cnt, k) ==
  k * (c1 \div cnt) + (IF k < c1 % cnt THEN k ELSE c1 % cnt)

(* The number of a rank in its communicator.                                *)
NumberIn(members, r) == Cardinality({s \in members : s < r})

(* Rows, folded.                                                            *)
LEMMA RowsOf ==
  ASSUME NEW c1, NEW members, NEW r
  PROVE  Keys!Rows(c1, members, r)
           = LET k == NumberIn(members, r)
                 cnt == Cardinality(members)
             IN  FirstRow(c1, cnt, k) .. FirstRow(c1, cnt, k) + (c1 \div cnt)
                                         + (IF k < c1 % cnt THEN 1 ELSE 0) - 1
<1>1. \A S : Keys!Cardinality(S) = Cardinality(S)
  BY DEF Keys!Cardinality, Cardinality
<1>. QED
  BY <1>1 DEF Keys!Rows, NumberIn, FirstRow

(* A member's rows end where the next member's start; the first member      *)
(* starts at 0, the last one ends at c1.                                    *)
LEMMA FirstRows ==
  ASSUME NEW c1 \in Nat, NEW cnt \in Nat \ {0}
  PROVE  /\ FirstRow(c1, cnt, 0) = 0 /\ FirstRow(c1, cnt, cnt) = c1
         /\ \A k \in Nat :
              /\ FirstRow(c1, cnt, k) \in Nat /\ FirstRow(c1, cnt, k + 1) \in Nat
              /\ FirstRow(c1, cnt, k) <= FirstRow(c1, cnt, k + 1)
              /\ FirstRow(c1, cnt, k + 1) - 1
                   = FirstRow(c1, cnt, k) + (c1 \div cnt)
                       + (IF k < c1 % cnt THEN 1 ELSE 0) - 1
<1>. DEFINE q == c1 \div cnt
            m == c1 % cnt
<1>1. q \in Nat /\ m \in 0 .. cnt - 1 /\ c1 = cnt * q + m
  BY Division
<1>. HIDE DEF q, m
<1>2. \A k \in Nat : k * q \in Nat /\ (k + 1) * q = k * q + q
  BY <1>1
<1>3. 0 * q = 0
  BY <1>1
<1>4. \A k : FirstRow(c1, cnt, k) = k * q + (IF k < m THEN k ELSE m)
  BY DEF FirstRow, q, m
<1>5. /\ FirstRow(c1, cnt, 0) = 0 /\ FirstRow(c1, cnt, cnt) = c1
      /\ \A k \in Nat :
           /\ FirstRow(c1, cnt, k) \in Nat /\ FirstRow(c1, cnt, k + 1) \in Nat
           /\ FirstRow(c1, cnt, k) <= FirstRow(c1, cnt, k + 1)
           /\ FirstRow(c1, cnt, k + 1) - 1
                = FirstRow(c1, cnt, k) + q + (IF k < m THEN 1 ELSE 0) - 1
  BY <1>1, <1>2, <1>3, <1>4
<1>. QED
  BY <1>5 DEF q, m

(* The members' rows are all the rows, each of them once.                   *)
LEMMA RowsShared ==
  ASSUME NEW top, NEW members, NEW c1, NEW f, NEW g
  PROVE  top \in Nat /\ members \in SUBSET (0 .. top) /\ members # {} /\ c1 \in Nat
         /\ (\A x \in Nat : f[x] \in Int)
         /\ (\A r \in members : g[r] = SumOver(f, Keys!Rows(c1, members, r)))
         => SumOver(g, members) = SumOver(f, 0 .. c1 - 1)
<1>. DEFINE cnt == Cardinality(members)
            First0(k) == FirstRow(c1, cnt, k)
            Upto(k) == 0 .. First0(k) - 1
            Initial(T) == \A s \in T, q \in members : q < s => q \in T
            C == {T \in SUBSET members :
                    Initial(T) => SumOver(g, T) = SumOver(f, Upto(Cardinality(T)))}
<1>0. SUFFICES ASSUME top \in Nat, members \in SUBSET (0 .. top), members # {}, c1 \in Nat,
                      \A x \in Nat : f[x] \in Int,
                      \A r \in members : g[r] = SumOver(f, Keys!Rows(c1, members, r))
               PROVE  SumOver(g, members) = SumOver(f, 0 .. c1 - 1)
  OBVIOUS
<1>1. IsFiniteSet(members) /\ cnt \in Nat \ {0}
  <2>1. IsFiniteSet(0 .. top)
    BY <1>0, FS_Interval
  <2>2. IsFiniteSet(members)
    BY <1>0, <2>1, FS_Subset
  <2>. QED
    BY <1>0, <2>2, FS_CardinalityType, FS_EmptySet
<1>. HIDE DEF cnt
<1>2. /\ First0(0) = 0 /\ First0(cnt) = c1
      /\ \A k \in Nat : /\ First0(k) \in Nat /\ First0(k + 1) \in Nat
                        /\ First0(k) <= First0(k + 1)
  BY <1>0, <1>1, FirstRows
<1>3. \A r \in members : NumberIn(members, r) \in Nat
  <2>1. \A r \in members : IsFiniteSet({s \in members : s < r})
    BY <1>1, FS_Subset
  <2>. QED
    BY <2>1, FS_CardinalityType DEF NumberIn
<1>4. \A r \in members :
        LET k == NumberIn(members, r)
        IN  Keys!Rows(c1, members, r) = First0(k) .. First0(k + 1) - 1
  <2>. SUFFICES ASSUME NEW r \in members, NEW k \in Nat, k = NumberIn(members, r)
                PROVE  Keys!Rows(c1, members, r) = First0(k) .. First0(k + 1) - 1
    BY <1>3
  <2>1. Keys!Rows(c1, members, r)
          = First0(k) .. First0(k) + (c1 \div cnt) + (IF k < c1 % cnt THEN 1 ELSE 0) - 1
    BY RowsOf DEF cnt
  <2>2. First0(k + 1) - 1 = First0(k) + (c1 \div cnt) + (IF k < c1 % cnt THEN 1 ELSE 0) - 1
    BY <1>0, <1>1, FirstRows
  <2>. QED
    BY <2>1, <2>2, Zenon
<1>. HIDE DEF First0
<1>5. \A r \in members : /\ Keys!Rows(c1, members, r) \in SUBSET Nat
                         /\ IsFiniteSet(Keys!Rows(c1, members, r))
  <2>1. \A a, b \in Nat : a .. b - 1 \in SUBSET Nat /\ IsFiniteSet(a .. b - 1)
    BY FS_Interval
  <2>. SUFFICES ASSUME NEW r \in members, NEW k \in Nat, k = NumberIn(members, r)
                PROVE  /\ Keys!Rows(c1, members, r) \in SUBSET Nat
                       /\ IsFiniteSet(Keys!Rows(c1, members, r))
    BY <1>3
  <2>2. First0(k) \in Nat /\ First0(k + 1) \in Nat
    BY <1>2
  <2>3. Keys!Rows(c1, members, r) = First0(k) .. First0(k + 1) - 1
    BY <1>4
  <2>. QED
    BY <2>1, <2>2, <2>3
<1>6. \A r \in members : g[r] \in Int
  <2>1. \A r \in members : SumOver(f, Keys!Rows(c1, members, r)) \in Int
    <3>. SUFFICES ASSUME NEW r \in members
                  PROVE  SumOver(f, Keys!Rows(c1, members, r)) \in Int
      OBVIOUS
    <3>1. \A x \in Keys!Rows(c1, members, r) : f[x] \in Int
      BY <1>0, <1>5
    <3>. QED
      BY <1>5, <3>1, SumType
  <2>. QED
    BY <1>0, <2>1
<1>. HIDE DEF Upto, Initial
<1>7. members \in C
  <2>1. SUFFICES ASSUME members \notin C PROVE FALSE
    OBVIOUS
  <2>2. PICK T \in SUBSET members : T \notin C /\ \A U \in SUBSET T : U # T => U \in C
    <3>. HIDE DEF C
    <3>. QED BY <1>1, <2>1, SmallestSubset
  <2>3. Initial(T) /\ SumOver(g, T) # SumOver(f, Upto(Cardinality(T)))
    BY <2>2
  <2>4. IsFiniteSet(T)
    BY <1>1, FS_Subset
  <2>5. T # {}
    <3>1. Cardinality({}) = 0 /\ Upto(0) = {}
      BY <1>2, FS_EmptySet DEF Upto
    <3>2. SumOver(g, {}) = 0 /\ SumOver(f, {}) = 0
      BY SumEmpty
    <3>. QED
      BY <2>3, <3>1, <3>2
  <2>6. PICK m \in T : \A x \in T : x <= m
    <3>1. T \in SUBSET (0 .. top)
      BY <1>0
    <3>. QED
      BY <1>0, <2>5, <3>1, Greatest
  <2>. DEFINE S == T \ {m}
  <2>7. Initial(S) /\ {s \in members : s < m} = S
    <3>1. \A x \in members : x \in Int
      BY <1>0
    <3>. QED
      BY <2>3, <2>6, <3>1 DEF Initial
  <2>8. S \in SUBSET T /\ S # T
    OBVIOUS
  <2>9. SumOver(g, S) = SumOver(f, Upto(Cardinality(S)))
    BY <2>2, <2>7, <2>8
  <2>10. Cardinality(S) \in Nat /\ Cardinality(T) = Cardinality(S) + 1 /\ IsFiniteSet(S)
    <3>. HIDE DEF S
    <3>1. IsFiniteSet(S)
      BY <2>4, <2>8, FS_Subset
    <3>2. T = S \cup {m} /\ m \notin S
      BY DEF S
    <3>3. Cardinality(S \cup {m}) = Cardinality(S) + 1
      BY <3>1, <3>2, FS_AddElement
    <3>. QED
      BY <3>1, <3>2, <3>3, FS_CardinalityType
  <2>11. NumberIn(members, m) = Cardinality(S)
    BY <2>7 DEF NumberIn
  <2>. DEFINE k == Cardinality(S)
              R == Keys!Rows(c1, members, m)
  <2>12. R = First0(k) .. First0(k + 1) - 1
    BY <1>4, <2>11
  <2>. HIDE DEF S, k, R
  <2>13. First0(k) \in Nat /\ First0(k + 1) \in Nat /\ First0(k) <= First0(k + 1)
    BY <1>2, <2>10 DEF k
  <2>14. /\ Upto(k + 1) = Upto(k) \cup R /\ Upto(k) \cap R = {}
         /\ \A x \in Upto(k) \cup R : x \in Nat
    BY <2>12, <2>13 DEF Upto
  <2>15. IsFiniteSet(Upto(k)) /\ IsFiniteSet(R)
    BY <2>12, <2>13, FS_Interval DEF Upto
  <2>16. \A x \in Upto(k) \cup R : f[x] \in Int
    BY <1>0, <2>14
  <2>17. SumOver(f, Upto(k + 1)) = SumOver(f, Upto(k)) + SumOver(f, R)
    BY <2>14, <2>15, <2>16, SumUnion
  <2>18. SumOver(g, T) = g[m] + SumOver(g, S)
    BY <1>6, <2>4, SumRemove DEF S
  <2>19. SumOver(f, Upto(k)) \in Int /\ SumOver(f, R) \in Int
    BY <2>15, <2>16, SumType
  <2>20. g[m] = SumOver(f, R)
    BY <1>0 DEF R
  <2>21. SumOver(g, T) = SumOver(f, Upto(k + 1))
    <3>1. \A x, y \in Int : x + y = y + x
      OBVIOUS
    <3>. QED
      BY <2>9, <2>17, <2>18, <2>19, <2>20, <3>1 DEF k
  <2>. QED
    BY <2>3, <2>10, <2>21 DEF k
<1>8. Initial(members) /\ Upto(cnt) = 0 .. c1 - 1
  BY <1>2 DEF Initial, Upto
<1>. QED
  BY <1>7, <1>8 DEF cnt

(* mm, as sums of functions of the row, the column and the inner index.     *)
Term(c1, c2, k1, k2, x, y) == [z \in Int |-> (k1 - x - z) * (k2 - z - y)]
Element(c1, c2, k1, k2, x) ==
  [y \in Int |-> Keys!MapThenSumSet(LAMBDA z : (k1 - x - z) * (k2 - z - y), 0 .. c2 - 1)]
RowSum(c1, c2, k1, k2) ==
  [x \in Int |-> Keys!MapThenSumSet(
      LAMBDA y : Keys!MapThenSumSet(
        LAMBDA z : (k1 - x - z) * (k2 - z - y), 0 .. c2 - 1), 0 .. c1 - 1)]

(* The three loops of mm, folded.                                           *)
LEMMA SumOfRowsIs ==
  ASSUME NEW R \in SUBSET Int, NEW c1, NEW c2, NEW k1, NEW k2
  PROVE  Keys!SumOfRows(R, c1, c2, k1, k2) = SumOver(RowSum(c1, c2, k1, k2), R)
BY DEF Keys!SumOfRows, Keys!MapThenSumSet, Keys!MapThenFoldSet, SumOver, MapThenSumSet,
       MapThenFoldSet, RowSum

(* A row of integers adds up to an integer.                                 *)
LEMMA RowSumType ==
  ASSUME NEW c1 \in Nat, NEW c2 \in Nat, NEW k1 \in Int, NEW k2 \in Int, NEW x \in Nat
  PROVE  RowSum(c1, c2, k1, k2)[x] \in Int
<1>1. /\ IsFiniteSet(0 .. c1 - 1) /\ IsFiniteSet(0 .. c2 - 1)
      /\ 0 .. c1 - 1 \in SUBSET Int /\ 0 .. c2 - 1 \in SUBSET Int
  BY FS_Interval
<1>2. ASSUME NEW y \in Int
      PROVE  Element(c1, c2, k1, k2, x)[y] \in Int
  <2>1. \A a, b \in Int : a * b \in Int
    OBVIOUS
  <2>2. \A z \in 0 .. c2 - 1 : Term(c1, c2, k1, k2, x, y)[z] \in Int
    BY <2>1 DEF Term
  <2>3. SumOver(Term(c1, c2, k1, k2, x, y), 0 .. c2 - 1) \in Int
    BY <1>1, <2>2, SumType
  <2>4. Element(c1, c2, k1, k2, x)[y]
          = Keys!MapThenSumSet(LAMBDA z : (k1 - x - z) * (k2 - z - y), 0 .. c2 - 1)
    BY DEF Element
  <2>5. Keys!MapThenSumSet(LAMBDA z : (k1 - x - z) * (k2 - z - y), 0 .. c2 - 1)
          = SumOver(Term(c1, c2, k1, k2, x, y), 0 .. c2 - 1)
    BY <1>1 DEF Keys!MapThenSumSet, Keys!MapThenFoldSet, SumOver, MapThenSumSet, MapThenFoldSet, Term
  <2>. QED
    BY <2>3, <2>4, <2>5
<1>3. SumOver(Element(c1, c2, k1, k2, x), 0 .. c1 - 1) \in Int
  BY <1>1, <1>2, SumType
<1>4. RowSum(c1, c2, k1, k2)[x]
        = Keys!MapThenSumSet(
            LAMBDA y : Keys!MapThenSumSet(
              LAMBDA z : (k1 - x - z) * (k2 - z - y), 0 .. c2 - 1), 0 .. c1 - 1)
  <2>1. x \in Int
    OBVIOUS
  <2>. QED
    BY <2>1 DEF RowSum
<1>5. Keys!MapThenSumSet(
        LAMBDA y : Keys!MapThenSumSet(
          LAMBDA z : (k1 - x - z) * (k2 - z - y), 0 .. c2 - 1), 0 .. c1 - 1)
        = SumOver(Element(c1, c2, k1, k2, x), 0 .. c1 - 1)
  BY <1>1 DEF Keys!MapThenSumSet, Keys!MapThenFoldSet, SumOver, MapThenSumSet, MapThenFoldSet, Element
<1>. QED
  BY <1>3, <1>4, <1>5

(* A pair of keys, and what its counters are multiplied to.                 *)
LEMMA ProductType ==
  ASSUME NEW m \in [Keys!Key -> Nat], NEW p \in Keys!Pair, NEW w \in {1, 2}
  PROVE  /\ p[w] \in Keys!Key /\ p[3 - w] \in Keys!Key /\ p[w] # p[3 - w]
         /\ p[w] \in Int /\ p[3 - w] \in Int
         /\ m[p[w]] \in Nat /\ m[p[3 - w]] \in Nat
         /\ Keys!Product(m, p, w) \in Int
<1>1. p[1] \in Keys!Key /\ p[2] \in Keys!Key /\ p[1] # p[2] /\ Keys!Key \in SUBSET Int
  BY DEF Keys!Pair, Keys!Key
<1>2. (w = 1 /\ 3 - w = 2) \/ (w = 2 /\ 3 - w = 1)
  OBVIOUS
<1>. DEFINE c1 == m[p[w]]
            c2 == m[p[3 - w]]
<1>3. /\ p[w] \in Keys!Key /\ p[3 - w] \in Keys!Key /\ p[w] # p[3 - w]
      /\ p[w] \in Int /\ p[3 - w] \in Int /\ c1 \in Nat /\ c2 \in Nat
  BY <1>1, <1>2
<1>. HIDE DEF c1, c2
<1>4. IsFiniteSet(0 .. c1 - 1) /\ 0 .. c1 - 1 \in SUBSET Int /\ \A x \in 0 .. c1 - 1 : x \in Nat
  BY <1>3, FS_Interval
<1>5. SumOver(RowSum(c1, c2, p[w], p[3 - w]), 0 .. c1 - 1) \in Int
  BY <1>3, <1>4, RowSumType, SumType
<1>6. Keys!Product(m, p, w) = SumOver(RowSum(c1, c2, p[w], p[3 - w]), 0 .. c1 - 1)
  BY <1>4, SumOfRowsIs DEF Keys!Product, Keys!compute, c1, c2
<1>. QED
  BY <1>3, <1>5, <1>6 DEF c1, c2

(* What the members of a communicator bring to the reduction.               *)
Brings(members) == [r \in members |-> Keys!LocalSum(r, Keys!NextProduct(r), members)]

(* Members that agree on the counters, the pair and the product get the     *)
(* product out of the reduction.                                            *)
LEMMA ReducedProduct ==
  ASSUME NEW members \in SUBSET Keys!Rank, members # {},
         NEW m \in [Keys!Key -> Nat], NEW p \in Keys!Pair, NEW w \in {1, 2},
         \A r \in members : map[r] = m /\ Keys!CurrentPair(r) = p /\ Keys!NextProduct(r) = w
  PROVE  SumOver(Brings(members), members) = Keys!Product(m, p, w)
<1>. DEFINE c1 == m[p[w]]
            c2 == m[p[3 - w]]
            f == RowSum(c1, c2, p[w], p[3 - w])
            g == Brings(members)
<1>1. p[w] \in Int /\ p[3 - w] \in Int /\ c1 \in Nat /\ c2 \in Nat
  BY ProductType
<1>2. \A r \in members : g[r] = Keys!SumOfRows(Keys!Rows(c1, members, r), c1, c2, p[w], p[3 - w])
  BY DEF Brings, Keys!LocalSum
<1>. HIDE DEF c1, c2, g
<1>3. \A r : Keys!Rows(c1, members, r) \in SUBSET Int
  BY DEF Keys!Rows
<1>4. \A r \in members : g[r] = SumOver(f, Keys!Rows(c1, members, r))
  BY <1>2, <1>3, SumOfRowsIs
<1>5. \A x \in Nat : f[x] \in Int
  BY <1>1, RowSumType
<1>. HIDE DEF f
<1>6. keyRanks - 1 \in Nat /\ members \in SUBSET (0 .. keyRanks - 1)
  BY RanksAssumption DEF Keys!Rank
<1>7. SumOver(g, members) = SumOver(f, 0 .. c1 - 1)
  BY <1>1, <1>4, <1>5, <1>6, RowsShared
<1>8. Keys!Product(m, p, w) = SumOver(f, 0 .. c1 - 1)
  <2>1. 0 .. c1 - 1 \in SUBSET Int
    OBVIOUS
  <2>. QED
    BY <2>1, SumOfRowsIs DEF Keys!Product, Keys!compute, f, c1, c2
<1>. QED
  BY <1>7, <1>8 DEF g

-----------------------------------------------------------------------------
(* nkeys-seq.cpp: what the sequential program has after n turns.            *)

Turns == length + Keys!LastPairs

(* g holds the states of the first m turns on the stream st.                *)
History(g, st, m) ==
  g = [k \in 0 .. m |->
         IF k = 0 THEN Keys!Start
         ELSE IF k <= length THEN Keys!Turn(g[k - 1], st[k])
         ELSE Keys!LastTurn(g[k - 1], Keys!LastPair(k - 1 - length))]

After(st, k) == (CHOOSE g : History(g, st, Turns))[k]

PairOf(st, k) == IF k < length THEN st[k + 1] ELSE Keys!LastPair(k - length)

(* The stream is known as far as turn k needs it, or turn k - 1 has.        *)
Drawn(st, k) == k < Len(st) \/ (length <= k /\ length <= Len(st))
Covered(st, k) == k <= Len(st) \/ length <= Len(st)

(* The counters with which turn k computes, and the products it needs.      *)
Counted(st, k) ==
  IF k < length THEN Keys!Count(After(st, k).map, PairOf(st, k)) ELSE After(st, k).map

Needed(st, k) ==
  {w \in {1, 2} :
     IF k < length THEN Keys!Reached(Counted(st, k), PairOf(st, k), w)
     ELSE Counted(st, k)[PairOf(st, k)[1]] > 0 /\ Counted(st, k)[PairOf(st, k)[2]] > 0}

ResultOf(st, k, w) ==
  IF w \in Needed(st, k) THEN Keys!Product(Counted(st, k), PairOf(st, k), w) ELSE 0

Counters == [map : [Keys!Key -> 0 .. SIZE - 1], V : [Keys!Key -> Int]]

(* The model's definition, folded.                                          *)
LEMMA SequentialIs ==
  ASSUME NEW k
  PROVE  Keys!Sequential[k] = After(stream, k)
BY DEF Keys!Sequential, After, History, Turns

(* The turns of both loops are finitely many.                               *)
LEMMA TurnsType == Turns \in Nat /\ Keys!LastPairs \in Nat /\ length \in Nat
<1>1. nkeys * (nkeys - 1) \in Nat
  <2>1. \A a, b \in Nat : a * b \in Nat
    OBVIOUS
  <2>2. nkeys \in Nat /\ nkeys - 1 \in Nat
    BY KeysAssumption
  <2>. QED
    BY <2>1, <2>2
<1>. QED
  BY <1>1, RanksAssumption DEF Turns, Keys!LastPairs

(* The recursion defines something, however many turns there are.           *)
LEMMA HistoryExists ==
  ASSUME NEW st, NEW m \in Nat
  PROVE  \E g : History(g, st, m)
<1>. DEFINE C == {k \in Nat : ~\E g : History(g, st, k)}
<1>. SUFFICES ASSUME C # {} PROVE FALSE
  OBVIOUS
<1>1. PICK k \in C : \A j \in C : k <= j
  <2>1. C \in SUBSET Nat
    OBVIOUS
  <2>. HIDE DEF C
  <2>. QED
    BY <2>1, LeastNatural
<1>2. k \in Nat /\ ~\E g : History(g, st, k)
  OBVIOUS
<1>3. k # 0
  <2>1. SUFFICES ASSUME k = 0 PROVE FALSE
    OBVIOUS
  <2>2. History([x \in 0 .. 0 |-> Keys!Start], st, 0)
    BY DEF History
  <2>. QED
    BY <1>2, <2>1, <2>2
<1>4. PICK g : History(g, st, k - 1)
  <2>1. k - 1 \in Nat /\ ~(k <= k - 1)
    BY <1>2, <1>3
  <2>. QED
    BY <1>1, <2>1
<1>. DEFINE h == [x \in 0 .. k |->
                    IF x = 0 THEN Keys!Start
                    ELSE IF x <= length THEN Keys!Turn(g[x - 1], st[x])
                    ELSE Keys!LastTurn(g[x - 1], Keys!LastPair(x - 1 - length))]
<1>5. \A x \in 0 .. k - 1 : h[x] = g[x]
  <2>1. \A x \in 0 .. k - 1 : x \in 0 .. k
    BY <1>2
  <2>2. \A x \in 0 .. k - 1 :
          g[x] = IF x = 0 THEN Keys!Start
                 ELSE IF x <= length THEN Keys!Turn(g[x - 1], st[x])
                 ELSE Keys!LastTurn(g[x - 1], Keys!LastPair(x - 1 - length))
    BY <1>4 DEF History
  <2>. QED
    BY <2>1, <2>2
<1>6. \A x \in 0 .. k : x # 0 => x - 1 \in 0 .. k - 1
  BY <1>2
<1>7. \A x \in 0 .. k :
        h[x] = IF x = 0 THEN Keys!Start
               ELSE IF x <= length THEN Keys!Turn(h[x - 1], st[x])
               ELSE Keys!LastTurn(h[x - 1], Keys!LastPair(x - 1 - length))
  <2>1. \A x \in 0 .. k : x # 0 => h[x - 1] = g[x - 1]
    <3>. HIDE DEF h
    <3>. QED BY <1>5, <1>6
  <2>. QED
    BY <2>1
<1>8. h = [x \in 0 .. k |-> h[x]]
  OBVIOUS
<1>. HIDE DEF h
<1>9. History(h, st, k)
  BY <1>7, <1>8 DEF History
<1>. QED
  BY <1>2, <1>9

(* The state after a turn, from the state before it.                        *)
LEMMA AfterSteps ==
  ASSUME NEW st
  PROVE  /\ After(st, 0) = Keys!Start
         /\ \A k \in 0 .. Turns - 1 :
              After(st, k + 1) = IF k < length THEN Keys!Turn(After(st, k), PairOf(st, k))
                                 ELSE Keys!LastTurn(After(st, k), PairOf(st, k))
<1>1. PICK g : g = (CHOOSE f : History(f, st, Turns))
  OBVIOUS
<1>2. History(g, st, Turns)
  <2>1. \E f : History(f, st, Turns)
    BY HistoryExists, TurnsType
  <2>. QED
    BY <1>1, <2>1
<1>3. \A k : After(st, k) = g[k]
  BY <1>1 DEF After
<1>4. \A k \in 0 .. Turns :
        g[k] = IF k = 0 THEN Keys!Start
               ELSE IF k <= length THEN Keys!Turn(g[k - 1], st[k])
               ELSE Keys!LastTurn(g[k - 1], Keys!LastPair(k - 1 - length))
  BY <1>2 DEF History
<1>5. g[0] = Keys!Start
  BY <1>4, TurnsType
<1>6. ASSUME NEW k \in 0 .. Turns - 1
      PROVE  g[k + 1] = IF k < length THEN Keys!Turn(g[k], PairOf(st, k))
                        ELSE Keys!LastTurn(g[k], PairOf(st, k))
  <2>1. /\ k + 1 \in 0 .. Turns /\ k + 1 # 0 /\ (k + 1) - 1 = k
        /\ (k + 1 <= length <=> k < length) /\ (k + 1) - 1 - length = k - length
    BY TurnsType
  <2>2. g[k + 1] = IF k + 1 = 0 THEN Keys!Start
                   ELSE IF k + 1 <= length THEN Keys!Turn(g[(k + 1) - 1], st[k + 1])
                   ELSE Keys!LastTurn(g[(k + 1) - 1], Keys!LastPair((k + 1) - 1 - length))
    BY <1>4, <2>1
  <2>. QED
    BY <2>1, <2>2 DEF PairOf
<1>. QED
  BY <1>3, <1>5, <1>6

(* What a rank restarts a counter from is below the limit.                  *)
LEMMA RestartType ==
  ASSUME NEW r \in Int
  PROVE  Keys!Restart(r) \in 0 .. SIZE - 1
<1>1. SIZE \in Nat \ {0} /\ SIZE * SIZE \in Nat \ {0}
  BY KeysAssumption
<1>2. r \div (SIZE * SIZE) \in Int /\ -((-r) \div (SIZE * SIZE)) \in Int
  BY <1>1
<1>3. \A x \in Int : x % SIZE \in 0 .. SIZE - 1 /\ 0 \in 0 .. SIZE - 1
  BY <1>1
<1>. QED
  BY <1>2, <1>3 DEF Keys!Restart

(* The pairs of the last loop are pairs.                                    *)
LEMMA LastPairType ==
  ASSUME NEW k \in 0 .. Keys!LastPairs - 1
  PROVE  Keys!LastPair(k) \in Keys!Pair
<1>. DEFINE d == nkeys - 1
            a == k \div d
            b == k % d
<1>1. d \in Nat \ {0} /\ nkeys \in Nat /\ k \in Nat /\ k < nkeys * d
  BY KeysAssumption, TurnsType DEF Keys!LastPairs
<1>2. a \in Nat /\ b \in 0 .. d - 1 /\ a < nkeys
  BY <1>1, Division, QuotientBound
<1>3. Keys!LastPair(k) = <<a, IF b < a THEN b ELSE b + 1>>
  BY DEF Keys!LastPair
<1>. HIDE DEF a, b
<1>4. /\ a \in Keys!Key /\ (IF b < a THEN b ELSE b + 1) \in Keys!Key
      /\ a # (IF b < a THEN b ELSE b + 1)
  BY <1>1, <1>2 DEF Keys!Key
<1>. QED
  BY <1>3, <1>4 DEF Keys!Pair

(* Two draws of the generator make a pair.                                  *)
LEMMA DistinctType ==
  ASSUME NEW k1 \in Keys!Key, NEW k2 \in Keys!Key
  PROVE  Keys!Distinct(k1, k2) \in Keys!Pair
<1>1. k1 \in Nat /\ k1 < nkeys /\ nkeys \in Nat /\ nkeys >= 2
  BY KeysAssumption DEF Keys!Key
<1>2. (k1 + 1) % nkeys \in Keys!Key /\ (k1 + 1) % nkeys # k1
  <2>1. CASE k1 + 1 < nkeys
    <3>1. (k1 + 1) % nkeys = k1 + 1
      BY <1>1, <2>1
    <3>. QED
      BY <1>1, <2>1, <3>1 DEF Keys!Key
  <2>2. CASE k1 + 1 = nkeys
    <3>1. (k1 + 1) % nkeys = 0
      BY <1>1, <2>2
    <3>. QED
      BY <1>1, <2>2, <3>1 DEF Keys!Key
  <2>. QED
    BY <1>1, <2>1, <2>2
<1>. QED
  BY <1>2 DEF Keys!Distinct, Keys!Pair

(* The pair of a turn.                                                      *)
LEMMA PairOfType ==
  ASSUME NEW st \in Seq(Keys!Pair), NEW k \in 0 .. Turns - 1, Drawn(st, k)
  PROVE  PairOf(st, k) \in Keys!Pair
<1>1. CASE k < length
  <2>1. k + 1 \in DOMAIN st
    BY <1>1, TurnsType DEF Drawn
  <2>2. st[k + 1] \in Keys!Pair
    BY <2>1
  <2>. QED
    BY <1>1, <2>2 DEF PairOf
<1>2. CASE ~(k < length)
  <2>1. k - length \in 0 .. Keys!LastPairs - 1
    BY <1>2, TurnsType DEF Turns
  <2>2. Keys!LastPair(k - length) \in Keys!Pair
    BY <2>1, LastPairType
  <2>. QED
    BY <1>2, <2>2 DEF PairOf
<1>. QED
  BY <1>1, <1>2

(* A pair is two different keys.                                            *)
LEMMA TwoKeys ==
  ASSUME NEW p \in Keys!Pair
  PROVE  /\ p[1] \in Keys!Key /\ p[2] \in Keys!Key /\ p[1] # p[2]
         /\ p[3 - 1] = p[2] /\ p[3 - 2] = p[1]
BY DEF Keys!Pair

(* The counters with which a turn computes: those of the pair may have      *)
(* reached the limit, no other.                                             *)
LEMMA CountedType ==
  ASSUME NEW st \in Seq(Keys!Pair), NEW k \in 0 .. Turns - 1, Drawn(st, k),
         After(st, k) \in Counters
  PROVE  /\ Counted(st, k) \in [Keys!Key -> Nat]
         /\ \A x \in Keys!Key : Counted(st, k)[x] <= SIZE
         /\ \A x \in Keys!Key : Counted(st, k)[x] = SIZE =>
              \E w \in {1, 2} : k < length /\ x = PairOf(st, k)[w] /\ w \in Needed(st, k)
<1>. DEFINE p == PairOf(st, k)
            m == Counted(st, k)
            s == After(st, k)
<1>1. p[1] \in Keys!Key /\ p[2] \in Keys!Key /\ p[1] # p[2] /\ p[3 - 1] = p[2] /\ p[3 - 2] = p[1]
  BY PairOfType, TwoKeys
<1>2. s.map \in [Keys!Key -> 0 .. SIZE - 1] /\ SIZE \in Nat /\ SIZE >= 2
  BY KeysAssumption DEF Counters
<1>3. CASE k < length
  <2>1. m = [x \in Keys!Key |-> IF x \in {p[1], p[2]} THEN s.map[x] + 1 ELSE s.map[x]]
    BY <1>3 DEF Counted, Keys!Count
  <2>2. \A w \in {1, 2} : w \in Needed(st, k) <=> (m[p[w]] = SIZE /\ m[p[3 - w]] # 0)
    BY <1>3 DEF Needed, Keys!Reached
  <2>. HIDE DEF s, m, p
  <2>3. m \in [Keys!Key -> Nat]
    BY <1>2, <2>1
  <2>4. \A x \in Keys!Key : /\ m[x] <= SIZE
                            /\ m[x] = SIZE => x = p[1] \/ x = p[2]
                            /\ x = p[1] \/ x = p[2] => m[x] # 0
    BY <1>2, <2>1
  <2>5. \A x \in Keys!Key : m[x] = SIZE =>
          (x = p[1] /\ 1 \in Needed(st, k)) \/ (x = p[2] /\ 2 \in Needed(st, k))
    BY <1>1, <2>2, <2>4
  <2>. QED
    BY <1>3, <2>3, <2>4, <2>5 DEF m, p
<1>4. CASE ~(k < length)
  <2>1. m = s.map
    BY <1>4 DEF Counted
  <2>. HIDE DEF s, m
  <2>2. m \in [Keys!Key -> Nat] /\ \A x \in Keys!Key : m[x] < SIZE /\ m[x] <= SIZE /\ m[x] # SIZE
    BY <1>2, <2>1
  <2>. QED
    BY <2>2 DEF m
<1>. QED
  BY <1>3, <1>4

(* The results of a turn.                                                   *)
LEMMA ResultType ==
  ASSUME NEW st \in Seq(Keys!Pair), NEW k \in 0 .. Turns - 1, Drawn(st, k),
         After(st, k) \in Counters, NEW w \in {1, 2}
  PROVE  ResultOf(st, k, w) \in Int
<1>1. PairOf(st, k) \in Keys!Pair /\ Counted(st, k) \in [Keys!Key -> Nat]
  BY PairOfType, CountedType
<1>2. Keys!Product(Counted(st, k), PairOf(st, k), w) \in Int
  BY <1>1, ProductType
<1>. QED
  BY <1>2 DEF ResultOf

(* A turn, of either loop, from its results.                                *)
LEMMA TurnIs ==
  ASSUME NEW st \in Seq(Keys!Pair), NEW k \in 0 .. Turns - 1, Drawn(st, k),
         After(st, k) \in Counters
  PROVE  After(st, k + 1)
           = [map |-> Keys!Reset(Counted(st, k), PairOf(st, k),
                                 k < length /\ 1 \in Needed(st, k), k < length /\ 2 \in Needed(st, k),
                                 ResultOf(st, k, 1), ResultOf(st, k, 2)),
              V |-> Keys!Add(After(st, k).V, PairOf(st, k),
                             ResultOf(st, k, 1), ResultOf(st, k, 2))]
<1>. DEFINE p == PairOf(st, k)
            m == Counted(st, k)
            s == After(st, k)
<1>1. CASE k < length
  <2>1. After(st, k + 1) = Keys!Turn(s, p)
    BY <1>1, AfterSteps
  <2>2. m = Keys!Count(s.map, p)
    BY <1>1 DEF Counted
  <2>3. \A w \in {1, 2} : w \in Needed(st, k) <=> Keys!Reached(m, p, w)
    BY <1>1 DEF Needed
  <2>4. \A w \in {1, 2} : ResultOf(st, k, w) = Keys!Result(m, p, w, Keys!Reached(m, p, w))
    BY <2>3 DEF ResultOf, Keys!Result
  <2>. HIDE DEF p, m, s
  <2>5. Keys!Turn(s, p)
          = [map |-> Keys!Reset(m, p, Keys!Reached(m, p, 1), Keys!Reached(m, p, 2),
                                Keys!Result(m, p, 1, Keys!Reached(m, p, 1)),
                                Keys!Result(m, p, 2, Keys!Reached(m, p, 2))),
             V |-> Keys!Add(s.V, p, Keys!Result(m, p, 1, Keys!Reached(m, p, 1)),
                                    Keys!Result(m, p, 2, Keys!Reached(m, p, 2)))]
    BY <2>2 DEF Keys!Turn
  <2>6. /\ Keys!Reached(m, p, 1) = (k < length /\ 1 \in Needed(st, k))
        /\ Keys!Reached(m, p, 2) = (k < length /\ 2 \in Needed(st, k))
    <3>1. \A w : Keys!Reached(m, p, w) \in BOOLEAN
      BY DEF Keys!Reached
    <3>. QED
      BY <1>1, <2>3, <3>1
  <2>. QED
    BY <2>1, <2>4, <2>5, <2>6 DEF p, m, s
<1>2. CASE ~(k < length)
  <2>1. After(st, k + 1) = Keys!LastTurn(s, p)
    BY <1>2, AfterSteps
  <2>2. m = s.map /\ s.map \in [Keys!Key -> 0 .. SIZE - 1]
    BY <1>2 DEF Counted, Counters
  <2>. DEFINE needed == s.map[p[1]] > 0 /\ s.map[p[2]] > 0
  <2>3. \A w \in {1, 2} : w \in Needed(st, k) <=> needed
    BY <1>2, <2>2 DEF Needed
  <2>4. \A w \in {1, 2} : ResultOf(st, k, w) = Keys!Result(m, p, w, needed)
    BY <2>3 DEF ResultOf, Keys!Result
  <2>5. Keys!LastTurn(s, p)
          = [map |-> s.map,
             V |-> Keys!Add(s.V, p, Keys!Result(m, p, 1, needed), Keys!Result(m, p, 2, needed))]
    BY <2>2 DEF Keys!LastTurn
  <2>6. \A r1, r2 : Keys!Reset(m, p, FALSE, FALSE, r1, r2) = s.map
    <3>. HIDE DEF m, s, p
    <3>. QED
      BY <2>2 DEF Keys!Reset
  <2>7. /\ (k < length /\ 1 \in Needed(st, k)) = FALSE
        /\ (k < length /\ 2 \in Needed(st, k)) = FALSE
    BY <1>2
  <2>. QED
    BY <2>1, <2>4, <2>5, <2>6, <2>7 DEF m, s, p
<1>. QED
  BY <1>1, <1>2

(* The counters that start again are below the limit again.                 *)
LEMMA TurnKeepsType ==
  ASSUME NEW st \in Seq(Keys!Pair), NEW k \in 0 .. Turns - 1, Drawn(st, k),
         After(st, k) \in Counters
  PROVE  After(st, k + 1) \in Counters
<1>. DEFINE p == PairOf(st, k)
            m == Counted(st, k)
            s == After(st, k)
            r1 == ResultOf(st, k, 1)
            r2 == ResultOf(st, k, 2)
            n1 == k < length /\ 1 \in Needed(st, k)
            n2 == k < length /\ 2 \in Needed(st, k)
<1>1. After(st, k + 1) = [map |-> Keys!Reset(m, p, n1, n2, r1, r2), V |-> Keys!Add(s.V, p, r1, r2)]
  BY TurnIs
<1>2. r1 \in Int /\ r2 \in Int
  BY ResultType
<1>3. /\ m \in [Keys!Key -> Nat] /\ SIZE \in Nat
      /\ \A x \in Keys!Key : m[x] <= SIZE /\ (m[x] = SIZE => (n1 /\ x = p[1]) \/ (n2 /\ x = p[2]))
  BY CountedType, KeysAssumption
<1>4. s.V \in [Keys!Key -> Int]
  BY DEF Counters
<1>. HIDE DEF p, m, s, r1, r2, n1, n2
<1>5. Keys!Add(s.V, p, r1, r2) \in [Keys!Key -> Int]
  BY <1>2, <1>4 DEF Keys!Add
<1>6. Keys!Reset(m, p, n1, n2, r1, r2) \in [Keys!Key -> 0 .. SIZE - 1]
  <2>1. Keys!Restart(r1) \in 0 .. SIZE - 1 /\ Keys!Restart(r2) \in 0 .. SIZE - 1
    BY <1>2, RestartType
  <2>2. \A x \in Keys!Key : ~(n1 /\ x = p[1]) /\ ~(n2 /\ x = p[2]) => m[x] \in 0 .. SIZE - 1
    <3>. SUFFICES ASSUME NEW x \in Keys!Key, ~(n1 /\ x = p[1]) /\ ~(n2 /\ x = p[2])
                  PROVE  m[x] \in 0 .. SIZE - 1
      OBVIOUS
    <3>1. m[x] \in Nat /\ m[x] <= SIZE /\ m[x] # SIZE
      BY <1>3
    <3>. QED
      BY <1>3, <3>1
  <2>. QED
    BY <2>1, <2>2 DEF Keys!Reset
<1>. QED
  BY <1>1, <1>5, <1>6 DEF Counters

(* nkeys-seq.cpp: at the top of a turn no counter is at its limit.          *)
LEMMA AfterType ==
  ASSUME NEW st \in Seq(Keys!Pair), NEW k \in 0 .. Turns, Covered(st, k)
  PROVE  After(st, k) \in Counters
<1>. DEFINE C == {j \in Nat : j \in 0 .. Turns /\ Covered(st, j) /\ After(st, j) \notin Counters}
<1>. SUFFICES ASSUME C # {} PROVE FALSE
  BY TurnsType
<1>1. PICK j \in C : \A x \in C : j <= x
  <2>1. C \in SUBSET Nat
    OBVIOUS
  <2>. HIDE DEF C
  <2>. QED
    BY <2>1, LeastNatural
<1>2. j \in 0 .. Turns /\ Covered(st, j) /\ After(st, j) \notin Counters /\ Turns \in Nat
  BY TurnsType
<1>3. j # 0
  <2>1. Keys!Start \in Counters
    <3>1. 0 \in 0 .. SIZE - 1 /\ 0 \in Int
      BY KeysAssumption
    <3>. QED
      BY <3>1 DEF Counters, Keys!Start
  <2>. QED
    BY <1>2, <2>1, AfterSteps
<1>. DEFINE b == j - 1
<1>4. b \in 0 .. Turns - 1 /\ b \in 0 .. Turns /\ b \in Nat /\ ~(j <= b) /\ b + 1 = j
  BY <1>2, <1>3
<1>5. Len(st) \in Nat /\ length \in Nat
  BY TurnsType
<1>6. Covered(st, b) /\ Drawn(st, b)
  BY <1>2, <1>4, <1>5 DEF Covered, Drawn
<1>7. After(st, b) \in Counters
  BY <1>1, <1>4, <1>6
<1>. HIDE DEF b
<1>8. After(st, b + 1) \in Counters
  BY <1>4, <1>6, <1>7, TurnKeepsType
<1>. QED
  BY <1>2, <1>4, <1>8

(* A pair that is drawn later changes nothing of what was.                  *)
LEMMA AfterAppend ==
  ASSUME NEW st \in Seq(Keys!Pair), NEW p \in Keys!Pair, Len(st) < length,
         NEW k \in 0 .. Len(st)
  PROVE  After(Append(st, p), k) = After(st, k)
<1>. DEFINE q == Append(st, p)
            C == {j \in Nat : j <= Len(st) /\ After(q, j) # After(st, j)}
<1>. SUFFICES ASSUME C # {} PROVE FALSE
  OBVIOUS
<1>1. PICK j \in C : \A x \in C : j <= x
  <2>1. C \in SUBSET Nat
    OBVIOUS
  <2>. HIDE DEF C
  <2>. QED
    BY <2>1, LeastNatural
<1>2. j \in Nat /\ j <= Len(st) /\ After(q, j) # After(st, j) /\ Len(st) \in Nat
  OBVIOUS
<1>3. j # 0
  BY <1>2, AfterSteps
<1>. DEFINE b == j - 1
<1>4. /\ b \in Nat /\ b <= Len(st) /\ ~(j <= b) /\ b + 1 = j /\ b < length
      /\ b \in 0 .. Turns - 1 /\ b + 1 \in 1 .. Len(st)
  BY <1>2, <1>3, TurnsType DEF Turns
<1>5. After(q, b) = After(st, b)
  BY <1>1, <1>4
<1>6. q[b + 1] = st[b + 1]
  BY <1>4
<1>. HIDE DEF b, q
<1>7. PairOf(q, b) = PairOf(st, b)
  BY <1>4, <1>6 DEF PairOf
<1>8. After(q, b + 1) = After(st, b + 1)
  BY <1>4, <1>5, <1>7, AfterSteps
<1>. QED
  BY <1>2, <1>4, <1>8

(* ... nor of the turns it is not needed for.                               *)
LEMMA TurnAppend ==
  ASSUME NEW st \in Seq(Keys!Pair), NEW p \in Keys!Pair, Len(st) < length,
         NEW k \in 0 .. Len(st) - 1
  PROVE  /\ PairOf(Append(st, p), k) = PairOf(st, k)
         /\ Counted(Append(st, p), k) = Counted(st, k)
         /\ Needed(Append(st, p), k) = Needed(st, k)
         /\ \A w : ResultOf(Append(st, p), k, w) = ResultOf(st, k, w)
<1>. DEFINE q == Append(st, p)
<1>1. k + 1 \in 1 .. Len(st) /\ k \in 0 .. Len(st) /\ k < length
  BY TurnsType
<1>2. q[k + 1] = st[k + 1] /\ After(q, k) = After(st, k)
  BY <1>1, AfterAppend
<1>. HIDE DEF q
<1>3. PairOf(q, k) = PairOf(st, k)
  BY <1>1, <1>2 DEF PairOf
<1>4. Counted(q, k) = Counted(st, k)
  BY <1>2, <1>3 DEF Counted
<1>5. Needed(q, k) = Needed(st, k)
  BY <1>3, <1>4 DEF Needed
<1>6. \A w : ResultOf(q, k, w) = ResultOf(st, k, w)
  BY <1>3, <1>4, <1>5 DEF ResultOf
<1>. QED
  BY <1>3, <1>4, <1>5, <1>6 DEF q

-----------------------------------------------------------------------------
(* nkeys-par.cpp: the ranks.                                                *)

(* The products r has the result of in the turn it computes.                *)
Got(st, r) == (Needed(st, turn[r]) \cap Keys!Mine(r)) \ todo[r]

Has(st, r, w) == IF w \in Got(st, r) THEN ResultOf(st, turn[r], w) ELSE 0

(* Between two turns a rank has what the sequential program has, ...        *)
AtTop(st, r) ==
  /\ map[r] = After(st, turn[r]).map /\ V[r] = After(st, turn[r]).V
  /\ todo[r] = {} /\ res[r] = <<0, 0>> /\ reset[r] = <<FALSE, FALSE>>

(* ... in a turn the counters it computes with, and some of the products.   *)
AtWork(st, r) ==
  /\ turn[r] < Turns /\ Drawn(st, turn[r])
  /\ turn[r] >= length => Needed(st, turn[r]) # {}
  /\ map[r] = Counted(st, turn[r]) /\ V[r] = After(st, turn[r]).V
  /\ todo[r] \subseteq Needed(st, turn[r]) \cap Keys!Mine(r)
  /\ res[r] = <<Has(st, r, 1), Has(st, r, 2)>>
  /\ reset[r] = <<turn[r] < length /\ 1 \in Got(st, r), turn[r] < length /\ 2 \in Got(st, r)>>

RankInv(st, r) ==
  /\ turn[r] \in 0 .. Turns /\ Covered(st, turn[r])
  /\ IF state[r] = "compute" THEN AtWork(st, r) ELSE AtTop(st, r)

(* s is ahead of r: r has nothing to reduce before it gets to the turn s is *)
(* in, and s has not reduced anything there without r.                      *)
Ahead(st, r, s) ==
  turn[r] < turn[s] =>
    /\ state[r] = "compute" => SSTEP = 0 /\ todo[r] = {}
    /\ state[s] = "compute" /\ s \in Keys!comm(r) =>
         todo[s] = Needed(st, turn[s]) \cap Keys!Mine(s)
    /\ \A k \in turn[r] .. turn[s] - 1 :
         (k = turn[r] /\ state[r] = "compute")
         \/ (Needed(st, k) = {} /\ (SSTEP = 1 => k >= length))

(* Ranks that reduce together have reduced the same products in a turn.     *)
Level(st, r, s) ==
  turn[r] = turn[s] /\ s \in Keys!comm(r) /\ state[r] = "compute" =>
    todo[r] = IF state[s] = "compute" THEN todo[s] ELSE Needed(st, turn[r]) \cap Keys!Mine(r)

Sync(st) == \A r, s \in Keys!Rank : Ahead(st, r, s) /\ Level(st, r, s)

KeysShape ==
  /\ SSTEP \in {0, 1} /\ (SSTEP = 1 => keyRanks > 1)
  /\ turn = [r \in Keys!Rank |-> turn[r]] /\ map = [r \in Keys!Rank |-> map[r]]
  /\ V = [r \in Keys!Rank |-> V[r]] /\ res = [r \in Keys!Rank |-> res[r]]
  /\ reset = [r \in Keys!Rank |-> reset[r]] /\ todo = [r \in Keys!Rank |-> todo[r]]
  /\ state = [r \in Keys!Rank |-> state[r]]

KeysInvOn(st) ==
  /\ st \in Seq(Keys!Pair) /\ KeysShape
  /\ \A r \in Keys!Rank : RankInv(st, r)
  /\ Sync(st)

KeysInv == KeysInvOn(stream)

(* The communicators.                                                       *)
LEMMA Communicators ==
  ASSUME SSTEP \in {0, 1}, NEW r \in Keys!Rank, NEW s \in Keys!comm(r)
  PROVE  /\ s \in Keys!Rank /\ r \in Keys!comm(s) /\ r \in Keys!comm(r)
         /\ Keys!comm(s) = Keys!comm(r) /\ Keys!Mine(s) = Keys!Mine(r)
         /\ Keys!Mine(r) \subseteq {1, 2} /\ Keys!comm(r) \subseteq Keys!Rank
         /\ SSTEP = 0 => Keys!comm(r) = Keys!Rank
<1>1. Keys!Rank \subseteq Nat
  BY DEF Keys!Rank
<1>2. \A q \in Nat : q % 2 \in {0, 1}
  OBVIOUS
<1>3. CASE SSTEP = 0
  BY <1>3 DEF Keys!comm, Keys!Mine
<1>4. CASE SSTEP = 1
  <2>1. \A q \in Keys!Rank : /\ Keys!comm(q) = {x \in Keys!Rank : Keys!color(x) = Keys!color(q)}
                             /\ Keys!Mine(q) = {Keys!color(q) + 1} /\ Keys!color(q) \in {0, 1}
    BY <1>1, <1>2, <1>4 DEF Keys!comm, Keys!Mine, Keys!color
  <2>2. s \in Keys!Rank /\ Keys!color(s) = Keys!color(r)
    BY <2>1
  <2>. QED
    BY <1>4, <2>1, <2>2
<1>. QED
  BY <1>3, <1>4

(* Each product is one of two, and a rank is in its own communicator.       *)
LEMMA MineType ==
  ASSUME SSTEP \in {0, 1}, NEW r \in Keys!Rank
  PROVE  Keys!Mine(r) \subseteq {1, 2} /\ r \in Keys!comm(r)
<1>1. Keys!Rank \subseteq Nat
  BY DEF Keys!Rank
<1>2. \A q \in Nat : q % 2 \in {0, 1}
  OBVIOUS
<1>. QED
  BY <1>1, <1>2 DEF Keys!comm, Keys!Mine, Keys!color

(* The pair a rank works on.                                                *)
LEMMA CurrentPairIs ==
  ASSUME NEW r, turn[r] \in Nat
  PROVE  Keys!CurrentPair(r) = PairOf(stream, turn[r]) /\ (Keys!InLastLoop(r) <=> ~(turn[r] < length))
BY RanksAssumption DEF Keys!CurrentPair, PairOf, Keys!InLastLoop

(* No rank has begun its first turn.                                        *)
LEMMA KeysInitially ==
  ASSUME Keys!Init
  PROVE  KeysInv
<1>. USE DEF Keys!Init
<1>1. stream = <<>> /\ stream \in Seq(Keys!Pair) /\ Len(stream) = 0
  OBVIOUS
<1>2. KeysShape
  <2>1. SSTEP \in {0, 1} /\ (SSTEP = 1 => keyRanks > 1)
    BY RanksAssumption
  <2>. QED
    BY <2>1 DEF KeysShape
<1>3. \A r \in Keys!Rank : /\ turn[r] = 0 /\ state[r] = "top" /\ map[r] = Keys!Start.map
                           /\ V[r] = Keys!Start.V /\ todo[r] = {} /\ res[r] = <<0, 0>>
                           /\ reset[r] = <<FALSE, FALSE>>
  <2>. SUFFICES ASSUME NEW r \in Keys!Rank
                PROVE  /\ turn[r] = 0 /\ state[r] = "top" /\ map[r] = Keys!Start.map
                       /\ V[r] = Keys!Start.V /\ todo[r] = {} /\ res[r] = <<0, 0>>
                       /\ reset[r] = <<FALSE, FALSE>>
    OBVIOUS
  <2>1. /\ turn = [x \in Keys!Rank |-> 0] /\ state = [x \in Keys!Rank |-> "top"]
        /\ map = [x \in Keys!Rank |-> Keys!Start.map] /\ V = [x \in Keys!Rank |-> Keys!Start.V]
        /\ todo = [x \in Keys!Rank |-> {}] /\ res = [x \in Keys!Rank |-> <<0, 0>>]
        /\ reset = [x \in Keys!Rank |-> <<FALSE, FALSE>>]
    OBVIOUS
  <2>. HIDE DEF Keys!Init
  <2>. QED
    BY <2>1, Zenon
<1>. HIDE DEF Keys!Init
<1>4. After(stream, 0) = Keys!Start
  BY AfterSteps
<1>5. ASSUME NEW r \in Keys!Rank PROVE RankInv(stream, r)
  <2>1. 0 \in 0 .. Turns /\ 0 <= Len(stream)
    BY <1>1, TurnsType
  <2>2. Covered(stream, turn[r]) /\ turn[r] \in 0 .. Turns /\ state[r] # "compute"
    BY <1>3, <2>1 DEF Covered
  <2>3. AtTop(stream, r)
    BY <1>3, <1>4 DEF AtTop
  <2>. QED
    BY <2>2, <2>3 DEF RankInv
<1>6. ASSUME NEW r \in Keys!Rank, NEW s \in Keys!Rank
      PROVE  Ahead(stream, r, s) /\ Level(stream, r, s)
  <2>1. turn[r] = 0 /\ turn[s] = 0 /\ state[r] # "compute"
    BY <1>3
  <2>. QED
    BY <2>1 DEF Ahead, Level
<1>. QED
  BY <1>1, <1>2, <1>5, <1>6 DEF KeysInv, KeysInvOn, Sync

(* A pair that is drawn changes nothing of what is said about the ranks.    *)
LEMMA StreamGrows ==
  ASSUME NEW st, KeysInvOn(st), NEW p \in Keys!Pair, Len(st) < length
  PROVE  KeysInvOn(Append(st, p))
<1>. DEFINE q == Append(st, p)
<1>1. /\ st \in Seq(Keys!Pair) /\ Len(st) \in Nat /\ length \in Nat /\ Turns \in Nat /\ length <= Turns
      /\ q \in Seq(Keys!Pair) /\ Len(q) = Len(st) + 1
  BY TurnsType DEF KeysInvOn, Turns
<1>2. \A k \in 0 .. Len(st) : After(q, k) = After(st, k)
  BY <1>1, AfterAppend
<1>3. \A k \in 0 .. Len(st) - 1 :
         /\ PairOf(q, k) = PairOf(st, k) /\ Counted(q, k) = Counted(st, k)
         /\ Needed(q, k) = Needed(st, k) /\ \A w : ResultOf(q, k, w) = ResultOf(st, k, w)
  BY <1>1, TurnAppend
<1>. HIDE DEF q
<1>4. \A r \in Keys!Rank : turn[r] \in 0 .. Turns /\ turn[r] <= Len(st)
  BY <1>1 DEF KeysInvOn, RankInv, Covered
<1>5. \A r \in Keys!Rank : state[r] = "compute" => turn[r] \in 0 .. Len(st) - 1
  BY <1>1, <1>4 DEF KeysInvOn, RankInv, AtWork, Drawn
<1>6. ASSUME NEW r \in Keys!Rank PROVE RankInv(q, r)
  <2>1. RankInv(st, r) /\ turn[r] \in 0 .. Turns /\ turn[r] <= Len(st)
    BY <1>4 DEF KeysInvOn
  <2>2. Covered(q, turn[r])
    BY <1>1, <2>1 DEF Covered
  <2>3. CASE state[r] = "compute"
    <3>1. turn[r] \in 0 .. Len(st) - 1 /\ turn[r] \in 0 .. Len(st)
      BY <1>1, <1>5, <2>3
    <3>2. Drawn(q, turn[r])
      BY <1>1, <3>1 DEF Drawn
    <3>3. Got(q, r) = Got(st, r) /\ \A w : Has(q, r, w) = Has(st, r, w)
      BY <1>3, <3>1 DEF Got, Has
    <3>4. AtWork(q, r)
      BY <1>2, <1>3, <2>1, <2>3, <3>1, <3>2, <3>3 DEF RankInv, AtWork
    <3>. QED
      BY <2>1, <2>2, <2>3, <3>4 DEF RankInv
  <2>4. CASE state[r] # "compute"
    <3>1. turn[r] \in 0 .. Len(st)
      BY <1>1, <2>1
    <3>2. AtTop(q, r)
      BY <1>2, <2>1, <2>4, <3>1 DEF RankInv, AtTop
    <3>. QED
      BY <2>1, <2>2, <2>4, <3>2 DEF RankInv
  <2>. QED
    BY <2>3, <2>4
<1>7. ASSUME NEW r \in Keys!Rank, NEW s \in Keys!Rank PROVE Ahead(q, r, s) /\ Level(q, r, s)
  <2>1. Ahead(st, r, s) /\ Level(st, r, s)
    BY DEF KeysInvOn, Sync
  <2>2. turn[r] \in Nat /\ turn[s] \in Nat /\ turn[s] <= Len(st)
    BY <1>4
  <2>3. \A k \in turn[r] .. turn[s] - 1 : Needed(q, k) = Needed(st, k)
    <3>1. \A k \in turn[r] .. turn[s] - 1 : k \in 0 .. Len(st) - 1
      BY <1>1, <2>2
    <3>. QED
      BY <1>3, <3>1
  <2>4. state[s] = "compute" => Needed(q, turn[s]) = Needed(st, turn[s])
    BY <1>3, <1>5
  <2>5. state[r] = "compute" => Needed(q, turn[r]) = Needed(st, turn[r])
    BY <1>3, <1>5
  <2>. QED
    BY <2>1, <2>3, <2>4, <2>5 DEF Ahead, Level
<1>. QED
  BY <1>1, <1>6, <1>7 DEF KeysInvOn, Sync, q

(* What is said of a rank that does nothing.                                *)
LEMMA RankUnchanged ==
  ASSUME NEW st, NEW q, RankInv(st, q), UNCHANGED SSTEP,
         /\ turn'[q] = turn[q] /\ map'[q] = map[q] /\ V'[q] = V[q] /\ todo'[q] = todo[q]
         /\ res'[q] = res[q] /\ reset'[q] = reset[q],
         state'[q] = state[q] \/ (state[q] # "compute" /\ state'[q] # "compute")
  PROVE  RankInv(st, q)'
<1>1. Got(st, q)' = Got(st, q) /\ Keys!Mine(q)' = Keys!Mine(q)
  BY DEF Got, Keys!Mine
<1>2. \A w : Has(st, q, w)' = Has(st, q, w)
  BY <1>1 DEF Has
<1>3. AtTop(st, q) => AtTop(st, q)'
  BY DEF AtTop
<1>4. AtWork(st, q) => AtWork(st, q)'
  BY <1>1, <1>2 DEF AtWork
<1>. QED
  BY <1>3, <1>4 DEF RankInv

(* The pair of a turn is counted.                                           *)
LEMMA WorkBegins ==
  ASSUME NEW st, KeysInvOn(st), NEW r \in Keys!Rank, state[r] # "compute",
         turn[r] < Turns, Drawn(st, turn[r]), turn[r] >= length => Needed(st, turn[r]) # {},
         map' = [map EXCEPT ![r] = Counted(st, turn[r])],
         todo' = [todo EXCEPT ![r] = Needed(st, turn[r]) \cap Keys!Mine(r)],
         state' = [state EXCEPT ![r] = "compute"],
         UNCHANGED <<SSTEP, turn, V, res, reset>>
  PROVE  KeysInvOn(st)'
<1>. USE DEF KeysInvOn
<1>1. KeysShape' /\ st \in Seq(Keys!Pair)
  BY DEF KeysShape
<1>2. \A q \in Keys!Rank \ {r} : /\ map'[q] = map[q] /\ todo'[q] = todo[q] /\ state'[q] = state[q]
  BY DEF KeysShape
<1>3. /\ map'[r] = Counted(st, turn[r]) /\ todo'[r] = Needed(st, turn[r]) \cap Keys!Mine(r)
      /\ state'[r] = "compute"
  BY DEF KeysShape
<1>4. \A q \in Keys!Rank : Keys!Mine(q)' = Keys!Mine(q) /\ Keys!comm(q)' = Keys!comm(q)
  BY DEF Keys!Mine, Keys!comm
<1>5. ASSUME NEW q \in Keys!Rank PROVE RankInv(st, q)'
  <2>1. CASE q # r
    BY <1>2, <2>1, RankUnchanged
  <2>2. CASE q = r
    <3>1. AtTop(st, r) /\ turn[r] \in 0 .. Turns /\ Covered(st, turn[r])
      BY DEF RankInv
    <3>2. Got(st, r)' = {}
      BY <1>3, <1>4 DEF Got
    <3>3. Has(st, r, 1)' = 0 /\ Has(st, r, 2)' = 0
      BY <3>2 DEF Has
    <3>4. res'[r] = <<0, 0>> /\ reset'[r] = <<FALSE, FALSE>> /\ V'[r] = After(st, turn[r]).V
      BY <3>1 DEF AtTop
    <3>5. AtWork(st, r)'
      BY <1>3, <1>4, <3>2, <3>3, <3>4 DEF AtWork
    <3>. QED
      BY <1>3, <2>2, <3>1, <3>5 DEF RankInv
  <2>. QED
    BY <2>1, <2>2
<1>6. ASSUME NEW q \in Keys!Rank, NEW s \in Keys!Rank PROVE Ahead(st, q, s)' /\ Level(st, q, s)'
  <2>1. /\ turn[q] \in Nat /\ turn[s] \in Nat /\ turn[r] \in Nat /\ turn' = turn
        /\ length \in Nat /\ SSTEP \in {0, 1} /\ SSTEP' = SSTEP
    BY TurnsType DEF RankInv, KeysShape
  <2>2. Ahead(st, q, s) /\ Level(st, q, s) /\ Level(st, s, q)
    BY DEF Sync
  <2>3. CASE q # r /\ s # r
    BY <1>2, <1>4, <2>1, <2>2, <2>3 DEF Ahead, Level
  <2>4. CASE q = r /\ s # r
    <3>1. turn[r] < turn[s] => Needed(st, turn[r]) = {} /\ (SSTEP = 1 => turn[r] >= length)
      <4>1. turn[r] < turn[s] => turn[r] \in turn[r] .. turn[s] - 1
        BY <2>1
      <4>. QED
        BY <2>2, <2>4, <4>1 DEF Ahead
    <3>2. turn[r] < turn[s] => SSTEP = 0 /\ todo'[r] = {}
      BY <1>3, <2>1, <3>1
    <3>3. Ahead(st, q, s)'
      BY <1>2, <1>3, <1>4, <2>1, <2>2, <2>4, <3>2 DEF Ahead
    <3>4. s \in Keys!comm(r) => r \in Keys!comm(s) /\ Keys!Mine(s) = Keys!Mine(r)
      BY <2>1, Communicators
    <3>5. Level(st, q, s)'
      BY <1>2, <1>3, <1>4, <2>1, <2>2, <2>4, <3>4 DEF Level
    <3>. QED
      BY <3>3, <3>5
  <2>5. CASE q # r /\ s = r
    <3>1. Ahead(st, q, s)'
      BY <1>2, <1>3, <1>4, <2>1, <2>2, <2>5 DEF Ahead
    <3>2. r \in Keys!comm(q) => Keys!Mine(q) = Keys!Mine(r)
      BY <2>1, Communicators
    <3>3. Level(st, q, s)'
      BY <1>2, <1>3, <1>4, <2>1, <2>2, <2>5, <3>2 DEF Level
    <3>. QED
      BY <3>1, <3>3
  <2>6. CASE q = r /\ s = r
    BY <1>3, <2>1, <2>6 DEF Ahead, Level
  <2>. QED
    BY <2>3, <2>4, <2>5, <2>6
<1>. QED
  BY <1>1, <1>5, <1>6 DEF Sync

(* A rank leaves a turn in which it has nothing to reduce any more.         *)
LEMMA TurnLeft ==
  ASSUME NEW st, KeysInvOn(st), NEW r \in Keys!Rank,
         \/ state[r] = "compute" /\ todo[r] = {} /\ SSTEP = 0
         \/ state[r] # "compute" /\ turn[r] >= length /\ Needed(st, turn[r]) = {},
         turn' = [turn EXCEPT ![r] = turn[r] + 1],
         \A q \in Keys!Rank : IF q = r THEN state'[q] # "compute" ELSE state'[q] = state[q],
         UNCHANGED <<SSTEP, todo>>
  PROVE  Sync(st)'
<1>. USE DEF KeysInvOn
<1>1. /\ \A q \in Keys!Rank : turn[q] \in Nat /\ turn'[q] = IF q = r THEN turn[r] + 1 ELSE turn[q]
      /\ length \in Nat /\ SSTEP \in {0, 1} /\ SSTEP' = SSTEP /\ todo' = todo
  BY TurnsType DEF RankInv, KeysShape
<1>2. \A q \in Keys!Rank : Keys!Mine(q)' = Keys!Mine(q) /\ Keys!comm(q)' = Keys!comm(q)
  BY DEF Keys!Mine, Keys!comm
<1>3. SSTEP = 0 => \A q \in Keys!Rank : /\ Keys!comm(q) = Keys!Rank
                                        /\ \A k : Needed(st, k) \cap Keys!Mine(q) = Needed(st, k)
  BY DEF Keys!comm, Keys!Mine, Needed
<1>4. ASSUME NEW q \in Keys!Rank, q # r, turn[q] = turn[r]
      PROVE  /\ state[q] = "compute" => SSTEP = 0 /\ todo[q] = {}
             /\ state[q] # "compute" => Needed(st, turn[r]) = {} /\ (SSTEP = 1 => turn[r] >= length)
  <2>1. Level(st, q, r) /\ Level(st, r, q)
    BY DEF Sync
  <2>2. state[q] = "compute" /\ turn[q] >= length => Needed(st, turn[q]) # {}
    BY DEF RankInv, AtWork
  <2>3. CASE state[r] = "compute" /\ todo[r] = {} /\ SSTEP = 0
    BY <1>3, <1>4, <2>1, <2>3 DEF Level
  <2>4. CASE state[r] # "compute" /\ turn[r] >= length /\ Needed(st, turn[r]) = {}
    BY <1>4, <2>2, <2>4
  <2>. QED
    BY <2>3, <2>4
<1>5. ASSUME NEW q \in Keys!Rank, turn[q] < turn[r]
      PROVE  Needed(st, turn[r]) = {} /\ (SSTEP = 1 => turn[r] >= length)
  <2>1. Ahead(st, q, r)
    BY DEF Sync
  <2>2. CASE state[r] = "compute" /\ todo[r] = {} /\ SSTEP = 0
    BY <1>3, <1>5, <2>1, <2>2 DEF Ahead
  <2>. QED
    BY <2>2
<1>6. ASSUME NEW q \in Keys!Rank, NEW s \in Keys!Rank PROVE Ahead(st, q, s)' /\ Level(st, q, s)'
  <2>1. /\ Ahead(st, q, s) /\ Ahead(st, s, q) /\ Level(st, q, s) /\ turn[q] \in Nat /\ turn[s] \in Nat
        /\ turn[r] \in Nat
    BY <1>1 DEF Sync
  <2>2. CASE q # r /\ s # r
    BY <1>1, <1>2, <2>1, <2>2 DEF Ahead, Level
  <2>3. CASE q = r /\ s # r
    <3>1. turn'[q] = turn[r] + 1 /\ turn'[s] = turn[s] /\ state'[q] # "compute" /\ state'[s] = state[s]
      BY <1>1, <2>3
    <3>2. Level(st, q, s)'
      BY <3>1 DEF Level
    <3>3. ASSUME turn[r] + 1 < turn[s] PROVE Ahead(st, q, s)'
      <4>1. turn[r] < turn[s]
        BY <2>1, <3>3
      <4>2. \A k \in turn[r] + 1 .. turn[s] - 1 : k \in turn[r] .. turn[s] - 1 /\ k # turn[r]
        BY <2>1
      <4>. QED
        BY <1>1, <1>2, <2>1, <2>3, <3>1, <4>1, <4>2 DEF Ahead
    <3>4. ASSUME ~(turn[r] + 1 < turn[s]) PROVE Ahead(st, q, s)'
      BY <3>1, <3>4 DEF Ahead
    <3>. QED
      BY <3>2, <3>3, <3>4
  <2>4. CASE q # r /\ s = r
    <3>1. turn'[s] = turn[r] + 1 /\ turn'[q] = turn[q] /\ state'[s] # "compute" /\ state'[q] = state[q]
      BY <1>1, <2>4
    <3>2. Level(st, q, s)'
      <4>1. ASSUME turn[q] = turn[r] + 1, r \in Keys!comm(q), state[q] = "compute"
            PROVE  todo[q] = Needed(st, turn[q]) \cap Keys!Mine(q)
        <5>1. q \in Keys!comm(r)
          BY <1>1, <4>1, Communicators
        <5>. QED
          BY <2>1, <2>4, <4>1, <5>1 DEF Ahead
      <4>. QED
        BY <1>1, <1>2, <2>4, <3>1, <4>1 DEF Level
    <3>3. Ahead(st, q, s)'
      <4>. SUFFICES ASSUME turn[q] < turn[r] + 1
                    PROVE  /\ state[q] = "compute" => SSTEP = 0 /\ todo[q] = {}
                           /\ \A k \in turn[q] .. turn[r] :
                                \/ k = turn[q] /\ state[q] = "compute"
                                \/ Needed(st, k) = {} /\ (SSTEP = 1 => k >= length)
        <5>1. (turn[r] + 1) - 1 = turn[r]
          BY <2>1
        <5>. QED
          BY <1>1, <1>2, <2>4, <3>1, <5>1 DEF Ahead
      <4>1. turn[q] < turn[r] \/ turn[q] = turn[r]
        BY <2>1
      <4>2. CASE turn[q] < turn[r]
        <5>1. /\ state[q] = "compute" => SSTEP = 0 /\ todo[q] = {}
              /\ \A k \in turn[q] .. turn[r] - 1 :
                   \/ k = turn[q] /\ state[q] = "compute"
                   \/ Needed(st, k) = {} /\ (SSTEP = 1 => k >= length)
          BY <2>1, <2>4, <4>2 DEF Ahead
        <5>2. \A k \in turn[q] .. turn[r] : k \in turn[q] .. turn[r] - 1 \/ k = turn[r]
          BY <2>1
        <5>. QED
          BY <1>5, <4>2, <5>1, <5>2
      <4>3. CASE turn[q] = turn[r]
        <5>1. \A k \in turn[q] .. turn[r] : k = turn[r]
          BY <2>1, <4>3
        <5>. QED
          BY <1>4, <2>4, <4>3, <5>1
      <4>. QED
        BY <4>1, <4>2, <4>3
    <3>. QED
      BY <3>2, <3>3
  <2>5. CASE q = r /\ s = r
    BY <1>1, <2>5 DEF Ahead, Level
  <2>. QED
    BY <2>2, <2>3, <2>4, <2>5
<1>. QED
  BY <1>6 DEF Sync

(* A turn that needs no product leaves everything as it is.                 *)
LEMMA EmptyTurn ==
  ASSUME NEW st \in Seq(Keys!Pair), NEW k \in 0 .. Turns - 1, Drawn(st, k),
         After(st, k) \in Counters, k >= length, Needed(st, k) = {}
  PROVE  After(st, k + 1).map = After(st, k).map /\ After(st, k + 1).V = After(st, k).V
<1>. DEFINE p == PairOf(st, k)
            m == After(st, k).map
            v == After(st, k).V
<1>1. ~(k < length) /\ Counted(st, k) = m
  BY TurnsType DEF Counted
<1>2. ResultOf(st, k, 1) = 0 /\ ResultOf(st, k, 2) = 0
  BY DEF ResultOf
<1>3. After(st, k + 1) = [map |-> Keys!Reset(m, p, FALSE, FALSE, 0, 0), V |-> Keys!Add(v, p, 0, 0)]
  <2>1. (k < length /\ 1 \in Needed(st, k)) = FALSE /\ (k < length /\ 2 \in Needed(st, k)) = FALSE
    BY <1>1
  <2>. HIDE DEF p, m, v
  <2>. QED
    BY <1>1, <1>2, <2>1, TurnIs DEF p, v
<1>4. m \in [Keys!Key -> 0 .. SIZE - 1] /\ v \in [Keys!Key -> Int]
  BY DEF Counters
<1>. HIDE DEF m, v, p
<1>5. Keys!Reset(m, p, FALSE, FALSE, 0, 0) = m
  BY <1>4 DEF Keys!Reset
<1>6. Keys!Add(v, p, 0, 0) = v
  <2>1. \A x \in Keys!Key : v[x] + 0 + 0 = v[x]
    BY <1>4
  <2>2. Keys!Add(v, p, 0, 0) = [x \in Keys!Key |-> v[x] + 0 + 0]
    BY DEF Keys!Add
  <2>. QED
    BY <1>4, <2>1, <2>2
<1>7. After(st, k + 1) = [map |-> m, V |-> v]
  BY <1>3, <1>5, <1>6
<1>8. After(st, k + 1).map = m /\ After(st, k + 1).V = v
  BY <1>7
<1>. QED
  BY <1>8 DEF m, v

(* BeginLast, the branch that has nothing to compute.                       *)
LEMMA SkipKeeps ==
  ASSUME NEW st, KeysInvOn(st), NEW r \in Keys!Rank, state[r] # "compute",
         turn[r] < Turns, turn[r] >= length, Needed(st, turn[r]) = {},
         turn' = [turn EXCEPT ![r] = turn[r] + 1],
         UNCHANGED <<SSTEP, map, V, res, reset, todo, state>>
  PROVE  KeysInvOn(st)'
<1>. USE DEF KeysInvOn
<1>1. /\ turn[r] \in 0 .. Turns - 1 /\ turn[r] + 1 \in 0 .. Turns /\ turn[r] \in 0 .. Turns
      /\ length <= Len(st) /\ Drawn(st, turn[r]) /\ Covered(st, turn[r]) /\ Covered(st, turn[r] + 1)
  <2>1. turn[r] \in 0 .. Turns /\ Covered(st, turn[r]) /\ Len(st) \in Nat /\ length \in Nat /\ Turns \in Nat
    BY TurnsType DEF RankInv
  <2>2. length <= Len(st)
    BY <2>1 DEF Covered
  <2>. QED
    BY <2>1, <2>2 DEF Covered, Drawn
<1>2. After(st, turn[r]) \in Counters
  BY <1>1, AfterType
<1>3. After(st, turn[r] + 1).map = After(st, turn[r]).map /\ After(st, turn[r] + 1).V = After(st, turn[r]).V
  BY <1>1, <1>2, EmptyTurn
<1>4. KeysShape'
  BY DEF KeysShape
<1>5. turn'[r] = turn[r] + 1 /\ \A q \in Keys!Rank \ {r} : turn'[q] = turn[q]
  BY DEF KeysShape
<1>6. ASSUME NEW q \in Keys!Rank PROVE RankInv(st, q)'
  <2>1. CASE q # r
    BY <1>5, <2>1, RankUnchanged
  <2>2. CASE q = r
    <3>1. AtTop(st, r)
      BY DEF RankInv
    <3>2. AtTop(st, r)'
      BY <1>3, <1>5, <3>1 DEF AtTop
    <3>. QED
      BY <1>1, <1>5, <2>2, <3>2 DEF RankInv
  <2>. QED
    BY <2>1, <2>2
<1>7. Sync(st)'
  <2>1. \A q \in Keys!Rank : IF q = r THEN state'[q] # "compute" ELSE state'[q] = state[q]
    OBVIOUS
  <2>. HIDE DEF KeysInvOn
  <2>. QED
    BY <2>1, TurnLeft
<1>. QED
  BY <1>4, <1>6, <1>7

(* Finish.                                                                  *)
LEMMA KeysFinishKeeps ==
  ASSUME NEW st, KeysInvOn(st), NEW r \in Keys!Rank, state[r] # "compute",
         state' = [state EXCEPT ![r] = "end"],
         UNCHANGED <<SSTEP, turn, map, V, res, reset, todo>>
  PROVE  KeysInvOn(st)'
<1>. USE DEF KeysInvOn
<1>1. KeysShape'
  BY DEF KeysShape
<1>2. state'[r] = "end" /\ \A q \in Keys!Rank \ {r} : state'[q] = state[q]
  BY DEF KeysShape
<1>3. ASSUME NEW q \in Keys!Rank PROVE RankInv(st, q)'
  BY <1>2, RankUnchanged
<1>4. \A q \in Keys!Rank : /\ Keys!Mine(q)' = Keys!Mine(q) /\ Keys!comm(q)' = Keys!comm(q)
                           /\ (state'[q] = "compute" <=> state[q] = "compute")
  BY <1>2 DEF Keys!Mine, Keys!comm
<1>5. ASSUME NEW q \in Keys!Rank, NEW s \in Keys!Rank PROVE Ahead(st, q, s)' /\ Level(st, q, s)'
  <2>1. Ahead(st, q, s) /\ Level(st, q, s)
    BY DEF Sync
  <2>. QED
    BY <1>4, <2>1 DEF Ahead, Level
<1>. QED
  BY <1>1, <1>3, <1>5 DEF Sync

(* What the end of a turn makes of a rank that has all its products.        *)
LEMMA TurnEnds ==
  ASSUME NEW st, st \in Seq(Keys!Pair), NEW r, turn[r] \in 0 .. Turns, Covered(st, turn[r]), AtWork(st, r),
         NEW r1, NEW r2, NEW f1, NEW f2,
         r1 = ResultOf(st, turn[r], 1), r2 = ResultOf(st, turn[r], 2),
         f1 = (turn[r] < length /\ 1 \in Needed(st, turn[r])),
         f2 = (turn[r] < length /\ 2 \in Needed(st, turn[r]))
  PROVE  /\ turn[r] + 1 \in 0 .. Turns /\ Covered(st, turn[r] + 1)
         /\ Keys!Reset(map[r], PairOf(st, turn[r]), f1, f2, r1, r2) = After(st, turn[r] + 1).map
         /\ Keys!Add(V[r], PairOf(st, turn[r]), r1, r2) = After(st, turn[r] + 1).V
<1>. DEFINE k == turn[r]
<1>1. /\ k \in 0 .. Turns - 1 /\ Drawn(st, k) /\ map[r] = Counted(st, k) /\ V[r] = After(st, k).V
      /\ k + 1 \in 0 .. Turns
  BY TurnsType DEF AtWork
<1>2. Covered(st, k + 1)
  <2>1. Len(st) \in Nat /\ length \in Nat
    BY TurnsType
  <2>. QED
    BY <1>1, <2>1 DEF Covered, Drawn
<1>3. After(st, k) \in Counters
  BY <1>1, AfterType
<1>. HIDE DEF k
<1>4. After(st, k + 1) = [map |-> Keys!Reset(Counted(st, k), PairOf(st, k), f1, f2, r1, r2),
                          V |-> Keys!Add(After(st, k).V, PairOf(st, k), r1, r2)]
  <2>1. /\ f1 = (k < length /\ 1 \in Needed(st, k)) /\ f2 = (k < length /\ 2 \in Needed(st, k))
        /\ r1 = ResultOf(st, k, 1) /\ r2 = ResultOf(st, k, 2)
    BY DEF k
  <2>. QED
    BY <1>1, <1>3, <2>1, TurnIs, Zenon
<1>5. /\ After(st, k + 1).map = Keys!Reset(Counted(st, k), PairOf(st, k), f1, f2, r1, r2)
      /\ After(st, k + 1).V = Keys!Add(After(st, k).V, PairOf(st, k), r1, r2)
  BY <1>4
<1>6. /\ k + 1 \in 0 .. Turns /\ Covered(st, k + 1)
      /\ Keys!Reset(map[r], PairOf(st, k), f1, f2, r1, r2) = After(st, k + 1).map
      /\ Keys!Add(V[r], PairOf(st, k), r1, r2) = After(st, k + 1).V
  BY <1>1, <1>2, <1>5
<1>. QED
  BY <1>6 DEF k

(* The rank that ends a turn.                                               *)
LEMMA RankEnds ==
  ASSUME NEW st, st \in Seq(Keys!Pair), NEW r, RankInv(st, r), state[r] = "compute",
         NEW r1, NEW r2, NEW f1, NEW f2,
         r1 = ResultOf(st, turn[r], 1), r2 = ResultOf(st, turn[r], 2),
         f1 = (turn[r] < length /\ 1 \in Needed(st, turn[r])),
         f2 = (turn[r] < length /\ 2 \in Needed(st, turn[r])),
         map'[r] = Keys!Reset(map[r], PairOf(st, turn[r]), f1, f2, r1, r2),
         V'[r] = Keys!Add(V[r], PairOf(st, turn[r]), r1, r2),
         turn'[r] = turn[r] + 1, state'[r] = "top", todo'[r] = {},
         res'[r] = <<0, 0>>, reset'[r] = <<FALSE, FALSE>>
  PROVE  RankInv(st, r)'
<1>1. turn[r] \in 0 .. Turns /\ Covered(st, turn[r]) /\ AtWork(st, r)
  BY DEF RankInv
<1>2. /\ turn[r] + 1 \in 0 .. Turns /\ Covered(st, turn[r] + 1)
      /\ Keys!Reset(map[r], PairOf(st, turn[r]), f1, f2, r1, r2) = After(st, turn[r] + 1).map
      /\ Keys!Add(V[r], PairOf(st, turn[r]), r1, r2) = After(st, turn[r] + 1).V
  BY <1>1, TurnEnds
<1>3. AtTop(st, r)'
  BY <1>2 DEF AtTop
<1>. QED
  BY <1>2, <1>3 DEF RankInv

(* What EndTurn leaves alone.                                               *)
LEMMA EndTurnLeaves ==
  ASSUME KeysShape, NEW R \in SUBSET Keys!Rank, NEW result, NEW flag,
         Keys!EndTurn(R, result, flag), UNCHANGED SSTEP
  PROVE  /\ \A q \in Keys!Rank \ R :
              /\ V'[q] = V[q] /\ map'[q] = map[q] /\ res'[q] = res[q] /\ reset'[q] = reset[q]
              /\ turn'[q] = turn[q] /\ state'[q] = state[q]
         /\ todo' = todo /\ KeysShape'
BY DEF Keys!EndTurn, KeysShape

(* SSTEP = 0: a rank ends its turn.                                         *)
LEMMA ApplyKeeps ==
  ASSUME NEW st, st = stream, KeysInvOn(st), NEW r \in Keys!Rank, Keys!Apply(r), UNCHANGED SSTEP
  PROVE  KeysInvOn(st)'
<1>0. KeysShape
  BY DEF KeysInvOn
<1>1. /\ SSTEP = 0 /\ state[r] = "compute" /\ todo[r] = {} /\ Keys!EndTurn({r}, res, reset)
  BY DEF Keys!Apply
<1>2. KeysShape' /\ todo' = todo
  BY <1>0, <1>1, EndTurnLeaves
<1>3. RankInv(st, r) /\ AtWork(st, r) /\ st \in Seq(Keys!Pair)
  BY <1>1 DEF KeysInvOn, RankInv
<1>4. Got(st, r) = Needed(st, turn[r])
  BY <1>1 DEF Got, Keys!Mine, Needed
<1>5. /\ res[r][1] = ResultOf(st, turn[r], 1) /\ res[r][2] = ResultOf(st, turn[r], 2)
      /\ reset[r][1] = (turn[r] < length /\ 1 \in Needed(st, turn[r]))
      /\ reset[r][2] = (turn[r] < length /\ 2 \in Needed(st, turn[r]))
  <2>1. \A w : ResultOf(st, turn[r], w) = Has(st, r, w)
    BY <1>4 DEF Has, ResultOf
  <2>2. res[r] = <<Has(st, r, 1), Has(st, r, 2)>>
        /\ reset[r] = <<turn[r] < length /\ 1 \in Got(st, r), turn[r] < length /\ 2 \in Got(st, r)>>
    BY <1>3 DEF AtWork
  <2>. QED
    BY <1>4, <2>1, <2>2
<1>6. /\ V'[r] = Keys!Add(V[r], PairOf(st, turn[r]), res[r][1], res[r][2])
      /\ map'[r] = Keys!Reset(map[r], PairOf(st, turn[r]), reset[r][1], reset[r][2], res[r][1], res[r][2])
      /\ res'[r] = <<0, 0>> /\ reset'[r] = <<FALSE, FALSE>> /\ turn'[r] = turn[r] + 1 /\ state'[r] = "top"
  <2>1. turn[r] \in Nat
    BY <1>3 DEF RankInv
  <2>2. Keys!CurrentPair(r) = PairOf(st, turn[r])
    BY <2>1, CurrentPairIs
  <2>. HIDE DEF KeysInvOn
  <2>. QED
    BY <1>1, <2>2 DEF Keys!EndTurn
<1>7. \A q \in Keys!Rank \ {r} :
              /\ V'[q] = V[q] /\ map'[q] = map[q] /\ res'[q] = res[q] /\ reset'[q] = reset[q]
              /\ turn'[q] = turn[q] /\ state'[q] = state[q]
  BY <1>0, <1>1, EndTurnLeaves
<1>8. ASSUME NEW q \in Keys!Rank PROVE RankInv(st, q)'
  <2>1. CASE q # r
    <3>1. RankInv(st, q)
      BY DEF KeysInvOn
    <3>. QED
      BY <1>2, <1>7, <2>1, <3>1, RankUnchanged
  <2>2. CASE q = r
    <3>1. todo'[r] = {}
      BY <1>1, <1>2
    <3>2. RankInv(st, r)'
      BY <1>1, <1>3, <1>5, <1>6, <3>1, RankEnds
    <3>. QED
      BY <2>2, <3>2
  <2>. QED
    BY <2>1, <2>2
<1>9. Sync(st)'
  <2>1. turn' = [turn EXCEPT ![r] = turn[r] + 1]
    BY <1>6, <1>7 DEF KeysInvOn, KeysShape, Keys!EndTurn, Keys!Apply
  <2>2. \A q \in Keys!Rank : IF q = r THEN state'[q] # "compute" ELSE state'[q] = state[q]
    BY <1>6, <1>7
  <2>. QED
    BY <1>1, <1>2, <2>1, <2>2, TurnLeft
<1>. QED
  BY <1>2, <1>3, <1>8, <1>9 DEF KeysInvOn

(* The barrier and the broadcasts: all ranks are in the same turn.          *)
LEMMA BroadcastKeeps ==
  ASSUME NEW st, st = stream, KeysInvOn(st), Keys!Broadcast, UNCHANGED SSTEP
  PROVE  KeysInvOn(st)'
<1>. DEFINE result == [r \in Keys!Rank |-> [w \in {1, 2} |-> res[Keys!Root(r, w)][w]]]
            flag == [r \in Keys!Rank |-> [w \in {1, 2} |-> reset[Keys!Root(r, w)][w]]]
<1>0. KeysShape
  BY DEF KeysInvOn
<1>1. /\ SSTEP = 1 /\ \A r \in Keys!Rank : state[r] = "compute" /\ todo[r] = {}
      /\ Keys!EndTurn(Keys!Rank, result, flag)
  BY DEF Keys!Broadcast
<1>2. 0 \in Keys!Rank /\ 1 \in Keys!Rank
  BY <1>1, RanksAssumption DEF KeysInvOn, KeysShape, Keys!Rank
<1>3. PICK k : k = turn[0]
  OBVIOUS
<1>4. \A r \in Keys!Rank : turn[r] = k
  <2>1. \A r, s \in Keys!Rank : ~(turn[r] < turn[s])
    BY <1>1 DEF KeysInvOn, Sync, Ahead
  <2>2. \A r \in Keys!Rank : turn[r] \in Nat
    BY DEF KeysInvOn, RankInv
  <2>. QED
    BY <1>2, <1>3, <2>1, <2>2
<1>5. \A r \in Keys!Rank : RankInv(st, r) /\ AtWork(st, r) /\ st \in Seq(Keys!Pair)
  BY <1>1 DEF KeysInvOn, RankInv
<1>6. \A r \in Keys!Rank : Got(st, r) = Needed(st, k) \cap Keys!Mine(r)
  BY <1>1, <1>4 DEF Got
<1>7. Keys!Mine(0) = {1} /\ Keys!Mine(1) = {2}
  BY <1>1 DEF Keys!Mine, Keys!color
<1>8. /\ res[0][1] = ResultOf(st, k, 1) /\ res[1][2] = ResultOf(st, k, 2)
      /\ reset[0][1] = (k < length /\ 1 \in Needed(st, k))
      /\ reset[1][2] = (k < length /\ 2 \in Needed(st, k))
  <2>1. 1 \in Got(st, 0) <=> 1 \in Needed(st, k)
    BY <1>2, <1>6, <1>7
  <2>2. 2 \in Got(st, 1) <=> 2 \in Needed(st, k)
    BY <1>2, <1>6, <1>7
  <2>3. Has(st, 0, 1) = ResultOf(st, k, 1) /\ Has(st, 1, 2) = ResultOf(st, k, 2)
    BY <1>2, <1>4, <2>1, <2>2 DEF Has, ResultOf
  <2>4. AtWork(st, 0) /\ AtWork(st, 1)
    BY <1>2, <1>5
  <2>5. /\ res[0] = <<Has(st, 0, 1), Has(st, 0, 2)>> /\ res[1] = <<Has(st, 1, 1), Has(st, 1, 2)>>
        /\ reset[0] = <<k < length /\ 1 \in Got(st, 0), k < length /\ 2 \in Got(st, 0)>>
        /\ reset[1] = <<k < length /\ 1 \in Got(st, 1), k < length /\ 2 \in Got(st, 1)>>
    BY <1>2, <1>4, <2>4 DEF AtWork
  <2>. QED
    BY <2>1, <2>2, <2>3, <2>5
<1>9. \A r \in Keys!Rank : /\ result[r][1] = res[0][1] /\ result[r][2] = res[1][2]
                           /\ flag[r][1] = reset[0][1] /\ flag[r][2] = reset[1][2]
  BY DEF Keys!Root
<1>. HIDE DEF result, flag
<1>10. KeysShape' /\ todo' = todo
  BY <1>0, <1>1, EndTurnLeaves
<1>11. \A r \in Keys!Rank :
         /\ V'[r] = Keys!Add(V[r], PairOf(st, turn[r]), result[r][1], result[r][2])
         /\ map'[r] = Keys!Reset(map[r], PairOf(st, turn[r]), flag[r][1], flag[r][2],
                                 result[r][1], result[r][2])
         /\ res'[r] = <<0, 0>> /\ reset'[r] = <<FALSE, FALSE>> /\ turn'[r] = turn[r] + 1
         /\ state'[r] = "top"
  <2>1. \A r \in Keys!Rank : turn[r] \in Nat
    BY <1>5 DEF RankInv
  <2>2. \A r \in Keys!Rank : Keys!CurrentPair(r) = PairOf(st, turn[r])
    BY <2>1, CurrentPairIs
  <2>. QED
    BY <1>1, <2>2 DEF Keys!EndTurn
<1>12. ASSUME NEW r \in Keys!Rank PROVE RankInv(st, r)'
  <2>1. /\ RankInv(st, r) /\ state[r] = "compute" /\ todo'[r] = {} /\ st \in Seq(Keys!Pair)
        /\ result[r][1] = ResultOf(st, turn[r], 1) /\ result[r][2] = ResultOf(st, turn[r], 2)
        /\ flag[r][1] = (turn[r] < length /\ 1 \in Needed(st, turn[r]))
        /\ flag[r][2] = (turn[r] < length /\ 2 \in Needed(st, turn[r]))
    BY <1>1, <1>4, <1>5, <1>8, <1>9, <1>10
  <2>2. PICK r1 : r1 = result[r][1]
    OBVIOUS
  <2>3. PICK r2 : r2 = result[r][2]
    OBVIOUS
  <2>4. PICK f1 : f1 = flag[r][1]
    OBVIOUS
  <2>5. PICK f2 : f2 = flag[r][2]
    OBVIOUS
  <2>6. /\ r1 = ResultOf(st, turn[r], 1) /\ r2 = ResultOf(st, turn[r], 2)
        /\ f1 = (turn[r] < length /\ 1 \in Needed(st, turn[r]))
        /\ f2 = (turn[r] < length /\ 2 \in Needed(st, turn[r]))
    BY <2>1, <2>2, <2>3, <2>4, <2>5
  <2>7. /\ map'[r] = Keys!Reset(map[r], PairOf(st, turn[r]), f1, f2, r1, r2)
        /\ V'[r] = Keys!Add(V[r], PairOf(st, turn[r]), r1, r2)
        /\ turn'[r] = turn[r] + 1 /\ state'[r] = "top"
        /\ res'[r] = <<0, 0>> /\ reset'[r] = <<FALSE, FALSE>>
    BY <1>11, <2>2, <2>3, <2>4, <2>5
  <2>. QED
    BY <2>1, <2>6, <2>7, RankEnds
<1>13. Sync(st)'
  <2>1. \A r \in Keys!Rank : state'[r] = "top" /\ turn'[r] = k + 1 /\ k \in Nat
    <3>1. k \in Nat
      BY <1>2, <1>3 DEF KeysInvOn, RankInv
    <3>. QED
      BY <1>4, <1>11, <3>1
  <2>. QED
    BY <2>1 DEF Sync, Ahead, Level
<1>. QED
  BY <1>2, <1>5, <1>10, <1>12, <1>13 DEF KeysInvOn

(* Ranks of a communicator that have products to compute are in the same    *)
(* turn, with the same counters and the same products left.                 *)
LEMMA RanksMeet ==
  ASSUME NEW st, KeysInvOn(st), NEW r \in Keys!Rank, NEW s \in Keys!comm(r),
         state[r] = "compute", state[s] = "compute", todo[r] # {}, todo[s] # {}
  PROVE  turn[s] = turn[r] /\ todo[s] = todo[r] /\ map[s] = map[r] /\ map[r] = Counted(st, turn[r])
<1>. USE DEF KeysInvOn
<1>1. s \in Keys!Rank /\ r \in Keys!comm(s)
  BY Communicators DEF KeysShape
<1>2. Ahead(st, r, s) /\ Ahead(st, s, r) /\ Level(st, r, s)
  BY <1>1 DEF Sync
<1>3. RankInv(st, r) /\ RankInv(st, s) /\ turn[r] \in Nat /\ turn[s] \in Nat
  BY <1>1 DEF RankInv
<1>4. turn[s] = turn[r]
  BY <1>2, <1>3 DEF Ahead
<1>5. todo[s] = todo[r]
  BY <1>2, <1>4 DEF Level
<1>6. map[r] = Counted(st, turn[r]) /\ map[s] = Counted(st, turn[s])
  BY <1>3 DEF RankInv, AtWork
<1>. QED
  BY <1>4, <1>5, <1>6

(* The first of the products that are left.                                 *)
LEMMA NextProductType ==
  ASSUME NEW r, todo[r] \in SUBSET {1, 2}, todo[r] # {}
  PROVE  Keys!NextProduct(r) \in todo[r]
<1>1. \E w \in todo[r] : \A x \in todo[r] : w <= x
  <2>1. CASE 1 \in todo[r]
    BY <2>1
  <2>2. CASE 1 \notin todo[r]
    BY <2>2
  <2>. QED
    BY <2>1, <2>2
<1>. QED
  BY <1>1 DEF Keys!NextProduct

(* What a rank has of its turn's products when it gets one more.            *)
LEMMA ProductArrives ==
  ASSUME NEW st, NEW r, RankInv(st, r), state[r] = "compute", UNCHANGED SSTEP,
         NEW w \in todo[r], Keys!Mine(r) \subseteq {1, 2},
         res'[r] = [res[r] EXCEPT ![w] = ResultOf(st, turn[r], w)],
         reset'[r] = IF turn[r] < length THEN [reset[r] EXCEPT ![w] = TRUE] ELSE reset[r],
         todo'[r] = todo[r] \ {w},
         turn'[r] = turn[r] /\ map'[r] = map[r] /\ V'[r] = V[r] /\ state'[r] = state[r]
  PROVE  RankInv(st, r)'
<1>1. /\ AtWork(st, r) /\ turn[r] \in 0 .. Turns /\ Covered(st, turn[r])
      /\ todo[r] \subseteq Needed(st, turn[r]) \cap Keys!Mine(r)
  BY DEF RankInv, AtWork
<1>2. w \in Needed(st, turn[r]) /\ w \in Keys!Mine(r) /\ (w = 1 \/ w = 2)
  BY <1>1
<1>3. Keys!Mine(r)' = Keys!Mine(r)
  BY DEF Keys!Mine
<1>4. Got(st, r)' = Got(st, r) \cup {w} /\ w \notin Got(st, r)
  BY <1>1, <1>2, <1>3 DEF Got
<1>5. PICK rw : rw = ResultOf(st, turn[r], w)
  OBVIOUS
<1>6. \A x : Has(st, r, x)' = IF x = w THEN rw ELSE Has(st, r, x)
  BY <1>4, <1>5 DEF Has
<1>7. res'[r] = <<Has(st, r, 1)', Has(st, r, 2)'>>
  <2>1. res[r] = <<Has(st, r, 1), Has(st, r, 2)>> /\ res'[r] = [res[r] EXCEPT ![w] = rw]
    BY <1>1, <1>5 DEF AtWork
  <2>2. PICK a : a = Has(st, r, 1)
    OBVIOUS
  <2>3. PICK b : b = Has(st, r, 2)
    OBVIOUS
  <2>4. res'[r] = [<<a, b>> EXCEPT ![w] = rw]
    BY <2>1, <2>2, <2>3
  <2>5. [<<a, b>> EXCEPT ![w] = rw] = <<IF w = 1 THEN rw ELSE a, IF w = 2 THEN rw ELSE b>>
    BY <1>2
  <2>. QED
    BY <1>6, <2>2, <2>3, <2>4, <2>5
<1>8. reset'[r] = <<turn[r] < length /\ 1 \in Got(st, r)', turn[r] < length /\ 2 \in Got(st, r)'>>
  <2>1. reset[r] = <<turn[r] < length /\ 1 \in Got(st, r), turn[r] < length /\ 2 \in Got(st, r)>>
    BY <1>1 DEF AtWork
  <2>2. CASE ~(turn[r] < length)
    BY <2>1, <2>2
  <2>3. CASE turn[r] < length
    <3>1. PICK a : a = reset[r][1]
      OBVIOUS
    <3>2. PICK b : b = reset[r][2]
      OBVIOUS
    <3>3. a = (turn[r] < length /\ 1 \in Got(st, r)) /\ b = (turn[r] < length /\ 2 \in Got(st, r))
      BY <2>1, <3>1, <3>2
    <3>4. reset[r] = <<a, b>>
      BY <2>1, <3>3
    <3>5. PICK c : c = TRUE
      OBVIOUS
    <3>6. reset'[r] = [<<a, b>> EXCEPT ![w] = c]
      BY <2>3, <3>4, <3>5
    <3>7. [<<a, b>> EXCEPT ![w] = c] = <<IF w = 1 THEN c ELSE a, IF w = 2 THEN c ELSE b>>
      BY <1>2
    <3>8. /\ (IF w = 1 THEN c ELSE a) = (turn[r] < length /\ 1 \in Got(st, r)')
          /\ (IF w = 2 THEN c ELSE b) = (turn[r] < length /\ 2 \in Got(st, r)')
      BY <1>2, <1>4, <2>3, <3>3, <3>5
    <3>. QED
      BY <3>6, <3>7, <3>8
  <2>. QED
    BY <2>2, <2>3
<1>9. todo'[r] \subseteq (Needed(st, turn[r]) \cap Keys!Mine(r)')
  BY <1>1, <1>3
<1>10. AtWork(st, r)'
  BY <1>1, <1>7, <1>8, <1>9 DEF AtWork
<1>. QED
  BY <1>1, <1>10 DEF RankInv

(* The reduction: its members compute the same product, and get it.         *)
LEMMA AllreduceKeeps ==
  ASSUME NEW st, st = stream, KeysInvOn(st), NEW q \in Keys!Rank,
         Keys!Allreduce(Keys!comm(q)), UNCHANGED SSTEP
  PROVE  KeysInvOn(st)'
<1>0. /\ st \in Seq(Keys!Pair) /\ KeysShape /\ SSTEP \in {0, 1}
      /\ \A r \in Keys!Rank : RankInv(st, r)
      /\ \A r, s \in Keys!Rank : Ahead(st, r, s) /\ Level(st, r, s)
  BY DEF KeysInvOn, Sync, KeysShape
<1>1. PICK C : C = Keys!comm(q)
  OBVIOUS
<1>2. /\ C \in SUBSET Keys!Rank /\ q \in C /\ C # {}
      /\ \A r \in C : Keys!comm(r) = C
      /\ \A r \in Keys!Rank : Keys!Mine(r) \subseteq {1, 2}
      /\ \A r \in Keys!Rank, s \in C : s \in Keys!comm(r) => r \in C
      /\ \A r \in C, s \in Keys!Rank : s \in Keys!comm(r) => s \in C
  BY <1>0, <1>1, Communicators, MineType
<1>3. \A r \in C : state[r] = "compute" /\ todo[r] # {}
  BY <1>1 DEF Keys!Allreduce
<1>4. PICK t : t = turn[q]
  OBVIOUS
<1>5. PICK T : T = todo[q]
  OBVIOUS
<1>6. PICK m : m = Counted(st, t)
  OBVIOUS
<1>7. PICK p : p = PairOf(st, t)
  OBVIOUS
<1>8. \A r \in C : turn[r] = t /\ todo[r] = T /\ map[r] = m
  BY <1>1, <1>2, <1>3, <1>4, <1>5, <1>6, RanksMeet
<1>9. /\ t \in 0 .. Turns /\ Covered(st, t) /\ t < Turns /\ Drawn(st, t)
      /\ T \subseteq Needed(st, t) \cap Keys!Mine(q)
  BY <1>0, <1>2, <1>3, <1>4, <1>5 DEF RankInv, AtWork
<1>10. PICK w : w = Keys!NextProduct(q)
  OBVIOUS
<1>11. w \in T /\ w \in {1, 2} /\ w \in Needed(st, t)
  <2>1. w \in T
    BY <1>2, <1>3, <1>5, <1>9, <1>10, NextProductType
  <2>. QED
    BY <1>2, <1>9, <2>1
<1>12. \A r \in C : Keys!NextProduct(r) = w
  BY <1>5, <1>8, <1>10 DEF Keys!NextProduct
<1>13. \A r \in C : Keys!CurrentPair(r) = p /\ (Keys!InLastLoop(r) <=> ~(t < length))
  <2>1. \A r \in C : turn[r] \in Nat
    BY <1>8, <1>9
  <2>. QED
    BY <1>7, <1>8, <2>1, CurrentPairIs
<1>14. m \in [Keys!Key -> Nat] /\ p \in Keys!Pair
  <2>1. t \in 0 .. Turns - 1
    BY <1>9, TurnsType
  <2>2. After(st, t) \in Counters
    BY <1>0, <1>9, AfterType
  <2>. QED
    BY <1>0, <1>6, <1>7, <1>9, <2>1, <2>2, CountedType, PairOfType
<1>15. PICK sum : sum = Keys!MapThenSumSet(LAMBDA r : Keys!LocalSum(r, Keys!NextProduct(r), C), C)
  OBVIOUS
<1>16. sum = ResultOf(st, t, w)
  <2>1. sum = SumOver(Brings(C), C)
    BY <1>15 DEF SumOver, MapThenSumSet, MapThenFoldSet, Keys!MapThenSumSet, Keys!MapThenFoldSet, Brings
  <2>2. SumOver(Brings(C), C) = Keys!Product(m, p, w)
    BY <1>2, <1>8, <1>11, <1>12, <1>13, <1>14, ReducedProduct
  <2>. QED
    BY <1>6, <1>7, <1>11, <2>1, <2>2 DEF ResultOf
<1>17. /\ res' = [r \in Keys!Rank |-> IF r \in C THEN [res[r] EXCEPT ![Keys!NextProduct(r)] = sum] ELSE res[r]]
       /\ reset' = [r \in Keys!Rank |-> IF r \in C /\ ~Keys!InLastLoop(r)
                      THEN [reset[r] EXCEPT ![Keys!NextProduct(r)] = TRUE] ELSE reset[r]]
       /\ todo' = [r \in Keys!Rank |-> IF r \in C THEN todo[r] \ {Keys!NextProduct(r)} ELSE todo[r]]
       /\ UNCHANGED <<stream, turn, map, V, state>>
  BY <1>1, <1>15 DEF Keys!Allreduce, Keys!Receivers
<1>18. KeysShape'
  BY <1>0, <1>17 DEF KeysShape
<1>19. \A r \in C : /\ res'[r] = [res[r] EXCEPT ![w] = sum]
                    /\ reset'[r] = IF t < length THEN [reset[r] EXCEPT ![w] = TRUE] ELSE reset[r]
                    /\ todo'[r] = T \ {w}
  BY <1>2, <1>8, <1>12, <1>13, <1>17
<1>20. \A r \in Keys!Rank \ C : res'[r] = res[r] /\ reset'[r] = reset[r] /\ todo'[r] = todo[r]
  BY <1>17
<1>21. ASSUME NEW r \in Keys!Rank PROVE RankInv(st, r)'
  <2>1. RankInv(st, r)
    BY <1>0
  <2>2. CASE r \in C
    <3>1. /\ state[r] = "compute" /\ w \in todo[r] /\ Keys!Mine(r) \subseteq {1, 2} /\ turn[r] = t
          /\ todo'[r] = todo[r] \ {w}
          /\ turn'[r] = turn[r] /\ map'[r] = map[r] /\ V'[r] = V[r] /\ state'[r] = state[r]
      BY <1>2, <1>3, <1>8, <1>11, <1>17, <1>19, <2>2
    <3>2. /\ res'[r] = [res[r] EXCEPT ![w] = ResultOf(st, turn[r], w)]
          /\ reset'[r] = IF turn[r] < length THEN [reset[r] EXCEPT ![w] = TRUE] ELSE reset[r]
      BY <1>16, <1>19, <2>2, <3>1
    <3>. QED
      BY <2>1, <3>1, <3>2, ProductArrives
  <2>3. CASE r \notin C
    BY <1>17, <1>20, <2>1, <2>3, RankUnchanged
  <2>. QED
    BY <2>2, <2>3
<1>22. ASSUME NEW r \in Keys!Rank, NEW s \in Keys!Rank PROVE Ahead(st, r, s)' /\ Level(st, r, s)'
  <2>1. Ahead(st, r, s) /\ Level(st, r, s)
    BY <1>0
  <2>2. /\ Keys!Mine(r)' = Keys!Mine(r) /\ Keys!comm(r)' = Keys!comm(r) /\ Keys!Mine(s)' = Keys!Mine(s)
        /\ turn' = turn /\ state' = state
    BY <1>17 DEF Keys!Mine, Keys!comm
  <2>3. turn[r] < turn[s] => r \notin C \/ state[r] # "compute"
    BY <1>3, <2>1 DEF Ahead
  <2>4. turn[r] < turn[s] /\ s \in Keys!comm(r) => s \notin C
    BY <1>2, <1>3, <2>3
  <2>5. Ahead(st, r, s)'
    <3>1. r \notin C => todo'[r] = todo[r]
      BY <1>20
    <3>2. s \notin C => todo'[s] = todo[s]
      BY <1>20
    <3>. QED
      BY <2>1, <2>2, <2>3, <2>4, <3>1, <3>2 DEF Ahead
  <2>6. Level(st, r, s)'
    <3>1. CASE r \in C
      <4>1. s \in Keys!comm(r) => s \in C /\ state[s] = "compute" /\ todo'[s] = T \ {w}
        BY <1>2, <1>3, <1>19, <3>1
      <4>2. todo'[r] = T \ {w}
        BY <1>19, <3>1
      <4>. QED
        BY <2>2, <4>1, <4>2 DEF Level
    <3>2. CASE r \notin C
      <4>1. s \in Keys!comm(r) => s \notin C
        BY <1>2, <3>2
      <4>2. todo'[r] = todo[r] /\ (s \notin C => todo'[s] = todo[s])
        BY <1>20, <3>2
      <4>. QED
        BY <2>1, <2>2, <4>1, <4>2 DEF Level
    <3>. QED
      BY <3>1, <3>2
  <2>. QED
    BY <2>5, <2>6
<1>. QED
  BY <1>0, <1>18, <1>21, <1>22 DEF KeysInvOn, Sync

(* The invariant is about the stream as it then is.                         *)
LEMMA OfTheStream ==
  ASSUME NEW s
  PROVE  s = stream' /\ KeysInvOn(s)' => KeysInv'
<1>1. s = stream /\ KeysInvOn(s) => KeysInv
  BY DEF KeysInv
<1>2. (s = stream /\ KeysInvOn(s) => KeysInv)'
  BY <1>1, PTL
<1>. QED
  BY <1>2

(* Begin: the pair is drawn or known already.                               *)
LEMMA BeginKeeps ==
  ASSUME KeysInv, NEW r \in Keys!Rank, Keys!Begin(r), UNCHANGED SSTEP
  PROVE  KeysInv'
<1>1. PICK st : st = stream
  OBVIOUS
<1>2. KeysInvOn(st)
  BY <1>1 DEF KeysInv
<1>3. /\ st \in Seq(Keys!Pair) /\ Len(st) \in Nat /\ length \in Nat /\ Turns \in Nat /\ length <= Turns
      /\ KeysShape /\ SSTEP \in {0, 1} /\ turn[r] \in Nat /\ Covered(st, turn[r])
  BY <1>2, TurnsType DEF KeysInvOn, KeysShape, RankInv, Turns
<1>4. /\ state[r] = "top" /\ turn[r] < length
      /\ state' = [state EXCEPT ![r] = "compute"] /\ UNCHANGED <<SSTEP, turn, V, res, reset>>
  BY <1>3 DEF Keys!Begin, Keys!InLastLoop
<1>5. PICK k1 \in Keys!Key, k2 \in Keys!Key :
        /\ stream' = IF turn[r] < Len(stream) THEN stream ELSE Append(stream, Keys!Distinct(k1, k2))
        /\ map' = [map EXCEPT ![r] = Keys!Count(map[r], stream'[turn[r] + 1])]
        /\ todo' = [todo EXCEPT ![r] =
                      {w \in Keys!Mine(r) : Keys!Reached(Keys!Count(map[r], stream'[turn[r] + 1]),
                                                         stream'[turn[r] + 1], w)}]
  BY Zenon DEF Keys!Begin
<1>6. PICK s : s = stream'
  OBVIOUS
<1>7. KeysInvOn(s) /\ Drawn(s, turn[r])
  <2>1. CASE turn[r] < Len(st)
    BY <1>1, <1>2, <1>5, <1>6, <2>1 DEF Drawn
  <2>2. CASE ~(turn[r] < Len(st))
    <3>1. turn[r] = Len(st) /\ Len(st) < length
      BY <1>3, <1>4, <2>2 DEF Covered
    <3>2. PICK p : p = Keys!Distinct(k1, k2)
      OBVIOUS
    <3>3. p \in Keys!Pair /\ s = Append(st, p)
      BY <1>1, <1>5, <1>6, <2>2, <3>2, DistinctType
    <3>4. KeysInvOn(s)
      BY <1>2, <3>1, <3>3, StreamGrows
    <3>5. Len(s) = Len(st) + 1
      BY <1>3, <3>3
    <3>. QED
      BY <1>3, <3>1, <3>4, <3>5 DEF Drawn
  <2>. QED
    BY <2>1, <2>2
<1>8. PairOf(s, turn[r]) = s[turn[r] + 1] /\ turn[r] < Turns /\ ~(turn[r] >= length)
  BY <1>3, <1>4 DEF PairOf
<1>9. Keys!Count(map[r], s[turn[r] + 1]) = Counted(s, turn[r])
  <2>1. AtTop(s, r)
    BY <1>4, <1>7 DEF KeysInvOn, RankInv
  <2>. QED
    BY <1>4, <1>8, <2>1 DEF AtTop, Counted
<1>10. map' = [map EXCEPT ![r] = Counted(s, turn[r])]
  BY <1>5, <1>6, <1>9
<1>11. todo' = [todo EXCEPT ![r] = Needed(s, turn[r]) \cap Keys!Mine(r)]
  <2>1. Keys!Mine(r) \subseteq {1, 2}
    BY <1>3, MineType
  <2>2. {w \in Keys!Mine(r) : Keys!Reached(Counted(s, turn[r]), PairOf(s, turn[r]), w)}
          = Needed(s, turn[r]) \cap Keys!Mine(r)
    BY <1>4, <2>1 DEF Needed
  <2>. QED
    BY <1>5, <1>6, <1>8, <1>9, <2>2
<1>12. KeysInvOn(s)'
  BY <1>4, <1>7, <1>8, <1>10, <1>11, WorkBegins
<1>. QED
  BY <1>6, <1>12, OfTheStream

(* BeginLast.                                                               *)
LEMMA BeginLastKeeps ==
  ASSUME KeysInv, NEW r \in Keys!Rank, Keys!BeginLast(r), UNCHANGED SSTEP
  PROVE  KeysInv'
<1>1. PICK st : st = stream
  OBVIOUS
<1>2. KeysInvOn(st)
  BY <1>1 DEF KeysInv
<1>3. /\ st \in Seq(Keys!Pair) /\ Len(st) \in Nat /\ length \in Nat
      /\ KeysShape /\ SSTEP \in {0, 1} /\ turn[r] \in Nat /\ Covered(st, turn[r])
  BY <1>2, TurnsType DEF KeysInvOn, KeysShape, RankInv, Turns
<1>4. /\ state[r] = "top" /\ turn[r] >= length /\ turn[r] < Turns /\ Drawn(st, turn[r])
      /\ UNCHANGED <<SSTEP, stream, map, V, res, reset>>
  BY <1>3 DEF Keys!BeginLast, Keys!InLastLoop, Turns, Covered, Drawn
<1>5. PICK p : p = PairOf(st, turn[r])
  OBVIOUS
<1>6. Keys!CurrentPair(r) = p
  BY <1>1, <1>3, <1>5, CurrentPairIs
<1>7. map[r] = Counted(st, turn[r])
  <2>1. AtTop(st, r)
    BY <1>2, <1>4 DEF KeysInvOn, RankInv
  <2>2. ~(turn[r] < length)
    BY <1>3, <1>4
  <2>. QED
    BY <2>1, <2>2 DEF AtTop, Counted
<1>8. Needed(st, turn[r]) = IF map[r][p[1]] > 0 /\ map[r][p[2]] > 0 THEN {1, 2} ELSE {}
  <2>1. ~(turn[r] < length)
    BY <1>3, <1>4
  <2>. QED
    BY <1>5, <1>7, <2>1 DEF Needed
<1>9. KeysInvOn(st)'
  <2>1. CASE map[r][p[1]] > 0 /\ map[r][p[2]] > 0
    <3>1. /\ todo' = [todo EXCEPT ![r] = Keys!Mine(r)] /\ UNCHANGED turn
          /\ state' = [state EXCEPT ![r] = "compute"]
      BY <1>6, <2>1 DEF Keys!BeginLast
    <3>2. Needed(st, turn[r]) \cap Keys!Mine(r) = Keys!Mine(r) /\ Needed(st, turn[r]) # {}
      BY <1>3, <1>8, <2>1, MineType
    <3>3. map' = [map EXCEPT ![r] = Counted(st, turn[r])]
      <4>1. map = [x \in Keys!Rank |-> map[x]] /\ map' = map
        BY <1>3, <1>4 DEF KeysShape
      <4>. QED
        BY <1>7, <4>1
    <3>. QED
      BY <1>2, <1>4, <3>1, <3>2, <3>3, WorkBegins
  <2>2. CASE ~(map[r][p[1]] > 0 /\ map[r][p[2]] > 0)
    <3>1. turn' = [turn EXCEPT ![r] = turn[r] + 1] /\ UNCHANGED <<todo, state>>
      BY <1>6, <2>2 DEF Keys!BeginLast
    <3>2. Needed(st, turn[r]) = {}
      BY <1>8, <2>2
    <3>. QED
      BY <1>2, <1>4, <3>1, <3>2, SkipKeeps
  <2>. QED
    BY <2>1, <2>2
<1>10. st = stream'
  BY <1>1, <1>4
<1>. QED
  BY <1>9, <1>10, OfTheStream

-----------------------------------------------------------------------------
(* nkeys-par among the programs.                                            *)
KeysProgramInv == program = "nkeys-par" => KeysInv

(* The invariant in the initial states of all the programs.                 *)
LEMMA KeysProgramInitially ==
  ASSUME Init
  PROVE  KeysProgramInv
BY KeysInitially DEF Init, InitWith, KeysInit, KeysProgramInv

(* A step of another program, or none.                                      *)
LEMMA KeysStutter ==
  ASSUME KeysInv, UNCHANGED <<SSTEP, stream, turn, map, V, res, reset, todo, state>>
  PROVE  KeysInv'
<1>1. PICK st : st = stream
  OBVIOUS
<1>2. KeysInvOn(st) /\ st = stream'
  BY <1>1 DEF KeysInv
<1>3. \A r \in Keys!Rank : RankInv(st, r)'
  BY <1>2, RankUnchanged DEF KeysInvOn
<1>4. \A r : Keys!Mine(r)' = Keys!Mine(r) /\ Keys!comm(r)' = Keys!comm(r)
  BY DEF Keys!Mine, Keys!comm
<1>5. ASSUME NEW r \in Keys!Rank, NEW s \in Keys!Rank PROVE Ahead(st, r, s)' /\ Level(st, r, s)'
  <2>1. Ahead(st, r, s) /\ Level(st, r, s)
    BY <1>2 DEF KeysInvOn, Sync
  <2>. QED
    BY <1>4, <2>1 DEF Ahead, Level
<1>6. KeysShape'
  BY <1>2 DEF KeysInvOn, KeysShape
<1>7. KeysInvOn(st)'
  BY <1>2, <1>3, <1>5, <1>6 DEF KeysInvOn, Sync
<1>. QED
  BY <1>2, <1>7, OfTheStream

(* A step of the ranks of nkeys-par.                                        *)
LEMMA KeysNextKeeps ==
  ASSUME KeysInv, Keys!Next
  PROVE  KeysInv'
<1>1. PICK st : st = stream
  OBVIOUS
<1>2. KeysInvOn(st)
  BY <1>1 DEF KeysInv
<1>3. CASE Keys!Collective
  <2>1. UNCHANGED <<SSTEP, stream>>
    BY <1>3 DEF Keys!Collective, Keys!Allreduce, Keys!Broadcast, Keys!EndTurn
  <2>2. KeysInvOn(st)'
    BY <1>1, <1>2, <1>3, <2>1, AllreduceKeeps, BroadcastKeeps DEF Keys!Collective
  <2>. QED
    BY <1>1, <2>1, <2>2, OfTheStream
<1>4. ASSUME NEW r \in Keys!Rank, Keys!RankStep(r) PROVE KeysInv'
  <2>1. UNCHANGED SSTEP
    BY <1>4 DEF Keys!RankStep
  <2>2. CASE Keys!Begin(r)
    BY <2>1, <2>2, BeginKeeps
  <2>3. CASE Keys!BeginLast(r)
    BY <2>1, <2>3, BeginLastKeeps
  <2>4. CASE Keys!Apply(r)
    <3>1. st = stream'
      BY <1>1, <2>4 DEF Keys!Apply, Keys!EndTurn
    <3>2. KeysInvOn(st)'
      BY <1>1, <1>2, <2>1, <2>4, ApplyKeeps
    <3>. QED
      BY <3>1, <3>2, OfTheStream
  <2>5. CASE Keys!Finish(r)
    <3>1. st = stream'
      BY <1>1, <2>5 DEF Keys!Finish
    <3>2. /\ state[r] # "compute" /\ state' = [state EXCEPT ![r] = "end"]
          /\ UNCHANGED <<SSTEP, turn, map, V, res, reset, todo>>
      BY <2>1, <2>5 DEF Keys!Finish
    <3>3. KeysInvOn(st)'
      BY <1>2, <3>2, KeysFinishKeeps
    <3>. QED
      BY <3>1, <3>3, OfTheStream
  <2>. QED
    BY <1>4, <2>2, <2>3, <2>4, <2>5 DEF Keys!RankStep
<1>5. CASE Keys!Finalized
  BY <1>5, KeysStutter DEF Keys!Finalized, Keys!vars
<1>. QED
  BY <1>3, <1>4, <1>5 DEF Keys!Next

(* A step of any program keeps the invariant of nkeys-par.                  *)
LEMMA KeysProgramStep ==
  ASSUME KeysProgramInv, [Next]_allVars
  PROVE  KeysProgramInv'
<1>. SUFFICES ASSUME program' = "nkeys-par" PROVE KeysInv'
  BY DEF KeysProgramInv
<1>1. ASSUME UNCHANGED <<program, keyVars>> PROVE KeysInv'
  BY <1>1, KeysStutter DEF KeysProgramInv, keyVars
<1>2. ASSUME InKeys(Keys!Next) PROVE KeysInv'
  BY <1>2, KeysNextKeeps DEF InKeys, KeysProgramInv
<1>. QED
  BY <1>1, <1>2 DEF Next, Run, InWavefront, InSort, Finalized, allVars, vars

(* Every rank of nkeys-par.cpp has at the top of each turn what             *)
(* nkeys-seq.cpp has after as many turns, however many ranks there are and  *)
(* with either build.                                                       *)
THEOREM RanksAgreeWithSequential == Spec => []SameAsSequential
<1>1. KeysProgramInv => SameAsSequential
  <2>. SUFFICES ASSUME KeysInv, NEW r \in Keys!Rank, state[r] # "compute"
                PROVE  [map |-> map[r], V |-> V[r]] = Keys!Sequential[turn[r]]
    BY DEF SameAsSequential, Keys!SameAsSequential, KeysProgramInv
  <2>1. /\ stream \in Seq(Keys!Pair) /\ turn[r] \in 0 .. Turns /\ Covered(stream, turn[r])
        /\ map[r] = After(stream, turn[r]).map /\ V[r] = After(stream, turn[r]).V
    BY DEF KeysInv, KeysInvOn, RankInv, AtTop
  <2>2. After(stream, turn[r]) \in Counters
    BY <2>1, AfterType
  <2>3. After(stream, turn[r]) = [map |-> After(stream, turn[r]).map, V |-> After(stream, turn[r]).V]
    BY <2>2 DEF Counters
  <2>. QED
    BY <2>1, <2>3, SequentialIs
<1>. QED
  BY <1>1, KeysProgramInitially, KeysProgramStep, PTL DEF Spec

(* The ranks that add up their rows in a reduction of nkeys-par.cpp compute *)
(* the same product of the same matrices.                                   *)
THEOREM ReductionsOfOneProduct == Spec => []SameProduct
<1>1. KeysProgramInv => SameProduct
  <2>. SUFFICES ASSUME KeysInv, NEW r \in Keys!Rank, NEW s \in Keys!Rank, s \in Keys!comm(r),
                       state[r] = "compute", state[s] = "compute", todo[r] # {}, todo[s] # {}
                PROVE  turn[r] = turn[s] /\ Keys!NextProduct(r) = Keys!NextProduct(s) /\ map[r] = map[s]
    BY DEF SameProduct, Keys!SameProduct, KeysProgramInv
  <2>1. PICK st : st = stream
    OBVIOUS
  <2>2. KeysInvOn(st)
    BY <2>1 DEF KeysInv
  <2>3. turn[s] = turn[r] /\ todo[s] = todo[r] /\ map[s] = map[r]
    BY <2>2, RanksMeet
  <2>. QED
    BY <2>3 DEF Keys!NextProduct
<1>. QED
  BY <1>1, KeysProgramInitially, KeysProgramStep, PTL DEF Spec

(* nkeys-par.cpp: a counter that reaches its limit is spent in the same     *)
(* turn, so that no rank ever begins a turn with a counter at the limit.    *)
THEOREM CountersStayBelow == Spec => []CountersRestart
<1>1. KeysProgramInv => CountersRestart
  <2>. SUFFICES ASSUME KeysInv, NEW r \in Keys!Rank, state[r] = "top", NEW k \in Keys!Key
                PROVE  map[r][k] < SIZE
    BY DEF CountersRestart, Keys!CountersRestart, KeysProgramInv
  <2>1. /\ stream \in Seq(Keys!Pair) /\ turn[r] \in 0 .. Turns /\ Covered(stream, turn[r])
        /\ map[r] = After(stream, turn[r]).map
    BY DEF KeysInv, KeysInvOn, RankInv, AtTop
  <2>2. After(stream, turn[r]) \in Counters
    BY <2>1, AfterType
  <2>3. map[r] \in [Keys!Key -> 0 .. SIZE - 1]
    BY <2>1, <2>2 DEF Counters
  <2>4. map[r][k] \in 0 .. SIZE - 1 /\ SIZE \in Nat
    BY <2>3, KeysAssumption
  <2>. QED
    BY <2>4
<1>. QED
  BY <1>1, KeysProgramInitially, KeysProgramStep, PTL DEF Spec
=============================================================================
