------------------------------ MODULE Collectives ------------------------------
(***************************************************************************)
(* The programs of MPI_basics, example10 and example11 that are made of    *)
(* collective calls only: what each rank ends with, as a function of the   *)
(* number of ranks P (and the length n).  Nothing else can happen: every   *)
(* rank makes the same calls in the same order.                            *)
(***************************************************************************)
EXTENDS Integers, FiniteSets, FiniteSetsExt

Undefined == 0 - 1

(* MPI_Scatterv, MPI_Gatherv and MPI_Allgatherv; MPI_SUM over the ranks Q.  *)
Scatterv(v, counts, displs, r) == [i \in 0 .. counts[r] - 1 |-> v[displs[r] + i]]

Gatherv(part, counts, displs, n) ==
  [j \in 0 .. n - 1 |->
     LET from == {r \in DOMAIN counts : displs[r] <= j /\ j < displs[r] + counts[r]}
     IN  IF from = {} THEN Undefined ELSE LET r == CHOOSE q \in from : TRUE IN part[r][j - displs[r]]]

Sum(f(_), Q) == MapThenSumSet(f, Q)

(* The rank of r in a communicator of the ranks Q, ordered by key, then by  *)
(* the old rank.                                                            *)
NewRank(r, Q, key(_)) ==
  Cardinality({q \in Q : key(q) < key(r) \/ (key(q) = key(r) /\ q < r)})

-----------------------------------------------------------------------------
A(n) == [i \in 0 .. n - 1 |-> i]
B(n) == [i \in 0 .. n - 1 |-> n - 1 - i]

(* C of rank 0: scatter, add, gather.                                       *)
AddScattered(n, counts, displs) ==
  LET localC == [r \in DOMAIN counts |->
                   LET a == Scatterv(A(n), counts, displs, r)
                       b == Scatterv(B(n), counts, displs, r)
                   IN  [i \in DOMAIN a |-> a[i] + b[i]]]
  IN  Gatherv(localC, counts, displs, n)

(* vectorsum.cpp: it aborts when the ranks do not divide n.                 *)
vectorsum(n, P) ==
  AddScattered(n, [r \in 0 .. P - 1 |-> n \div P], [r \in 0 .. P - 1 |-> r * (n \div P)])

(* Mutant: every rank gets the rounded share.                               *)
MutCount(n, P, r) == n \div P

Count(n, P, r) == (n * (r + 1)) \div P - (n * r) \div P

(* vectorsumV.cpp                                                           *)
vectorsumV(n, P) ==
  AddScattered(n, [r \in 0 .. P - 1 |-> Count(n, P, r)], [r \in 0 .. P - 1 |-> (n * r) \div P])

(* collectreverse.cpp: Collect of every rank.                               *)
collectreverse(P) ==
  Gatherv([r \in 0 .. P - 1 |-> [i \in {0} |-> r]], [r \in 0 .. P - 1 |-> 1],
          [r \in 0 .. P - 1 |-> P - r - 1], P)

(* scan.cpp: element i of rank r, of localn = 3.                            *)
scan(r, i) == Sum(LAMBDA q : i + q * 3, 0 .. r)

(* maxloc.cpp: the greatest value, and the lowest rank that has it.         *)
maxloc(val) ==
  LET best == {r \in DOMAIN val : \A q \in DOMAIN val : val[q] <= val[r]}
      idx == CHOOSE r \in best : \A q \in best : r <= q
  IN  [val |-> val[idx], idx |-> idx]

(* StdDeviation.cpp: the ten numbers of every rank; sums are kept in tenths *)
(* and hundredths.  Rank 1 has the variance.                                *)
rand_nums == <<1, 2, 3, 42, 55, 66, 71, 82, 93, 190>>

Variance(P) ==
  LET local_sum == Sum(LAMBDA k : rand_nums[k], DOMAIN rand_nums)
      mean == (10 * P * local_sum) \div (10 * P)
      local_sq_diff == Sum(LAMBDA k : (10 * rand_nums[k] - mean) * (10 * rand_nums[k] - mean),
                           DOMAIN rand_nums)
  IN  (P * local_sq_diff) \div (10 * P)

(* Average.cpp: global_sum of rank 2; even ranks give 1 instead of 48.      *)
global_sum(P) == Sum(LAMBDA r : IF r % 2 = 0 THEN 1 ELSE 1 + 2 + 3 + 42, 0 .. P - 1)

(* GatherTest.cpp: recvbuf of rank 1 has room for 4 elements of every rank,  *)
(* which sends 3 of its own.                                                *)
GatherTest(P) ==
  Gatherv([r \in 0 .. P - 1 |-> [k \in 0 .. 2 |-> k + 1]], [r \in 0 .. P - 1 |-> 3],
          [r \in 0 .. P - 1 |-> 4 * r], 4 * P)

(* SplitComm.cpp: the rank of r in its row of two.                          *)
row_rank(r, P) == NewRank(r, {q \in 0 .. P - 1 : q \div 2 = r \div 2}, LAMBDA q : -q)

(* Group.cpp: the odd ranks of ten or more; the others have no communicator.*)
spare_rank(r) ==
  LET ranks == {1, 3, 5, 7, 9}
  IN  IF r \in ranks THEN NewRank(r, ranks, LAMBDA q : q) ELSE 0 - 1

(* group.cpp and split.cpp: the new rank, and the sum of the ranks that r    *)
(* shares the new communicator with.                                        *)
group(r, P) ==
  LET half == (P + 1) \div 2
      Q == IF r < half THEN 0 .. half - 1 ELSE half .. P - 1
  IN  [newrank |-> NewRank(r, Q, LAMBDA q : q), rcvbuf |-> Sum(LAMBDA q : q, Q)]

split(r, P) ==
  LET Q == {q \in 0 .. P - 1 : (2 * q) \div P = (2 * r) \div P}
  IN  [newrank |-> NewRank(r, Q, LAMBDA q : q), rcvbuf |-> Sum(LAMBDA q : q, Q)]

(* rowcol.cpp: what rank p gets, two datatypes over one matrix.             *)
rowcol(p, P) ==
  LET data(e) == 1 + (e % P) + P * (e \div P)
  IN  [row |-> [i \in 0 .. P - 1 |-> data(p * P + i)], col |-> [i \in 0 .. P - 1 |-> data(p + i * P)]]

-----------------------------------------------------------------------------
(* What the programs are there to show, for P ranks and length n.            *)
Sums(n, P) ==
  LET all == [i \in 0 .. n - 1 |-> n - 1]
  IN  (n % P = 0 => vectorsum(n, P) = all) /\ vectorsumV(n, P) = all

Communicators(P) ==
  \A r \in 0 .. P - 1 :
    /\ group(r, P) = split(r, P)
    /\ row_rank(r, P) = IF r % 2 = 1 THEN 0 ELSE IF r = P - 1 THEN 0 ELSE 1
    /\ spare_rank(r) = IF r % 2 = 1 /\ r < 10 THEN r \div 2 ELSE 0 - 1
    /\ \A q \in 0 .. P - 1 : rowcol(q, P).col[r] = rowcol(r, P).row[q]

Values(P) ==
  /\ collectreverse(P) = B(P)
  /\ \A r \in 0 .. P - 1 : \A i \in 0 .. 2 : 2 * scan(r, i) = (r + 1) * (2 * i + 3 * r)
  /\ \A val \in [0 .. (IF P < 4 THEN P ELSE 4) - 1 -> 0 .. 2] :
       /\ \A q \in DOMAIN val : val[q] <= maxloc(val).val
       /\ \A q \in 0 .. maxloc(val).idx - 1 : val[q] < maxloc(val).val
  /\ Variance(P) = Variance(1)
  /\ global_sum(P) = 48 * (P \div 2) + (P + 1) \div 2
  /\ \A j \in 0 .. 4 * P - 1 : GatherTest(P)[j] = IF j % 4 = 3 THEN Undefined ELSE (j % 4) + 1
=============================================================================
