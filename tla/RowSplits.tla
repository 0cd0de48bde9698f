-------------------------------- MODULE RowSplits --------------------------------
(***************************************************************************)
(* matrix_vector.cpp, the static splits of all_pair.cpp, and               *)
(* omp_all_pair.cpp: the rows are shared out among the threads before they *)
(* start, and each thread computes its own without synchronisation.        *)
(***************************************************************************)
EXTENDS Integers, FiniteSetsExt

CONSTANT num_threads

Thread == 0 .. num_threads - 1

VARIABLES
  split,    \* the function called: its kind, its sizes m and n, chunk_size
  left,     \* left[t]: the rows t has still to compute
  col,      \* col[t]: the column t is at in its row; -1 before the row
  b         \* the result vector, or all_pair: cell -> value; no_init before

vars == <<split, left, col, b>>

no_init == -1

-----------------------------------------------------------------------------
SDIV(x, y) == (x + y - 1) \div y

Block(lower, size, m) == lower .. Min({lower + size, m}) - 1

cyclic(t, s) == {row \in 0 .. s.m - 1 : row % num_threads = t}

block(t, s) ==
  LET chunk == SDIV(s.m, num_threads) IN Block(t * chunk, chunk, s.m)

block_cyclic(t, s) ==
  LET stride == num_threads * s.chunk_size
      offset == t * s.chunk_size
      lowers == {lower \in offset .. s.m - 1 : (lower - offset) % stride = 0}
  IN  UNION {Block(lower, s.chunk_size, s.m) : lower \in lowers}

(* schedule(runtime): any thread may get any row.                           *)
Scheduled(s) ==
  {[t \in Thread |-> {row \in 0 .. s.m - 1 : to[row] = t}] : to \in [0 .. s.m - 1 -> Thread]}

Splits(s) ==
  CASE s.kind \in {"cyclic", "falsesharing"} -> {[t \in Thread |-> cyclic(t, s)]}
    [] s.kind = "block" -> {[t \in Thread |-> block(t, s)]}
    [] s.kind \in {"block_cyclic", "all_pairs"} -> {[t \in Thread |-> block_cyclic(t, s)]}
    [] s.kind = "omp_all_pair" -> Scheduled(s)

-----------------------------------------------------------------------------
(* Row i of all_pair is the entries below the diagonal and their mirror     *)
(* images; the distance of i and I stands for itself.                       *)
OfPairs == split.kind \in {"all_pairs", "omp_all_pair"}

Cells(row) ==
  IF OfPairs THEN {<<row, I>> : I \in 0 .. row} \cup {<<I, row>> : I \in 0 .. row}
  ELSE {<<row>>}

dist(cell) == Max({cell[1], cell[2]}) * split.m + Min({cell[1], cell[2]})

(* init of matrix_vector.cpp                                                *)
A(row, c) == IF row >= c THEN 1 ELSE 0
x(c) == c

accum(row) == MapThenSumSet(LAMBDA c : A(row, c) * x(c), 0 .. split.n - 1)

InitWith(s) ==
  /\ split = s
  /\ left \in Splits(s)
  /\ col = [t \in Thread |-> -1]
  /\ b = [cell \in UNION {Cells(row) : row \in 0 .. s.m - 1} |-> no_init]

Row(t) == Min(left[t])

Write(t) ==
  /\ split.kind # "falsesharing" /\ left[t] # {}
  /\ b' = [cell \in DOMAIN b |->
             IF cell \notin Cells(Row(t)) THEN b[cell]
             ELSE IF OfPairs THEN dist(cell) ELSE accum(Row(t))]
  /\ left' = [left EXCEPT ![t] = @ \ {Row(t)}]
  /\ UNCHANGED <<split, col>>

(* cyclic_parallel_mult_falsesharing sums in the result vector itself.      *)
Clear(t) ==
  /\ split.kind = "falsesharing" /\ left[t] # {} /\ col[t] = -1
  /\ b' = [b EXCEPT ![<<Row(t)>>] = 0]
  /\ col' = [col EXCEPT ![t] = 0]
  /\ UNCHANGED <<split, left>>

Add(t) ==
  /\ col[t] \in 0 .. split.n - 1
  /\ b' = [b EXCEPT ![<<Row(t)>>] = @ + A(Row(t), col[t]) * x(col[t])]
  /\ col' = [col EXCEPT ![t] = @ + 1]
  /\ UNCHANGED <<split, left>>

EndRow(t) ==
  /\ col[t] = split.n
  /\ left' = [left EXCEPT ![t] = @ \ {Row(t)}]
  /\ col' = [col EXCEPT ![t] = -1]
  /\ UNCHANGED <<split, b>>

Run(t) == Write(t) \/ Clear(t) \/ Add(t) \/ EndRow(t)

Done == \A t \in Thread : left[t] = {}

Next == (\E t \in Thread : Run(t)) \/ (Done /\ UNCHANGED vars)

-----------------------------------------------------------------------------
(* check of matrix_vector.cpp                                               *)
check(row) ==
  IF row < split.n THEN (row * (row + 1)) \div 2 ELSE (split.n * (split.n - 1)) \div 2

(* No two threads ever have the same cell to write, and when they are       *)
(* joined every cell has the value a sequential run gives it.               *)
RowsSplit ==
  /\ \A t, u \in Thread : t # u =>
       (UNION {Cells(row) : row \in left[t]}) \cap (UNION {Cells(row) : row \in left[u]}) = {}
  /\ Done => \A cell \in DOMAIN b : b[cell] = IF OfPairs THEN dist(cell) ELSE check(cell[1])
=============================================================================
