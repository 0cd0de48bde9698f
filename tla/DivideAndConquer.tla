---------------------------- MODULE DivideAndConquer ---------------------------
(***************************************************************************)
(* The divide and conquer programs: FastFlow's ff_DC (mergesort_dac_ptr,   *)
(* fib_dac and strassen_dac of example8), which divides an operand until   *)
(* cond holds, solves the small ones with seq and combines their results,  *)
(* and the tasks of omp_fibo (example5).  A call is named by its path from *)
(* the root; several are executed at the same time.                        *)
(***************************************************************************)
EXTENDS StrassenAlgebra, FiniteSets, SequencesExt

CONSTANTS
  CUTOFF,      \* mergesort_dac_ptr: the largest right - left of the base case
  Arrays,      \* arrays to be sorted, from index 0
  FibMax       \* the largest Fibonacci number asked for

VARIABLES
  dac,         \* the program and its input
  calls,       \* calls[p]: the operand of call p, and whether it was divided
  results,     \* results[p]: the result of call p, not yet combined
  array        \* mergesort: the array, sorted in place

vars == <<dac, calls, results, array>>

-----------------------------------------------------------------------------
(* mergesort_dac_ptr: an operand is a segment of the array.                 *)
Segment(l, r) == [left |-> l, right |-> r]

DivideSegment(op) ==
  LET mid == (op.left + op.right) \div 2
  IN  <<Segment(op.left, mid), Segment(mid + 1, op.right)>>

(* std::sort of the segment.                                                *)
SeqSort(a, op) ==
  LET s == SortSeq([k \in 1 .. op.right - op.left + 1 |-> a[op.left + k - 1]], <)
  IN  [i \in DOMAIN a |-> IF i \in op.left .. op.right THEN s[i - op.left + 1] ELSE a[i]]

(* mergeMS of two segments in order: an element goes behind the ones of its *)
(* segment before it and the smaller ones of the other; of two equal ones   *)
(* the left one is first.                                                   *)
mergeMS(a, ress) ==
  LET left == ress[1].left
      mid == ress[1].right
      right == ress[2].right
      place(e) ==
        IF e <= mid THEN e + Cardinality({j \in mid + 1 .. right : a[j] < a[e]})
        ELSE left + e - mid - 1 + Cardinality({i \in left .. mid : a[i] <= a[e]})
      tmp(k) == a[CHOOSE e \in left .. right : place(e) = k]
  IN  [i \in DOMAIN a |-> IF i \in left .. right THEN tmp(i) ELSE a[i]]

-----------------------------------------------------------------------------
(* strassen_dac: an operand is a pair of matrices; one of size 2 is divided *)
(* into seven of size 1.                                                    *)
Pair(a, b) == [a |-> a, b |-> b, size |-> 1]
DivideMatrices(op) ==
  LET a11 == op.a[<<1, 1>>]  a12 == op.a[<<1, 2>>]
      a21 == op.a[<<2, 1>>]  a22 == op.a[<<2, 2>>]
      b11 == op.b[<<1, 1>>]  b12 == op.b[<<1, 2>>]
      b21 == op.b[<<2, 1>>]  b22 == op.b[<<2, 2>>]
  IN  <<Pair(mmsum(a11, a22), mmsum(b11, b22)),
        Pair(mmsum(a21, a22), b11),
        Pair(a11, mmsub(b12, b22)),
        Pair(a22, mmsub(b21, b11)),
        Pair(mmsum(a11, a12), b22),
        Pair(mmsub(a21, a11), mmsum(b11, b12)),
        Pair(mmsub(a12, a22), mmsum(b21, b22))>>

combineF(p) ==
  [q \in Quadrant |->
     CASE q = <<1, 1>> -> mmsum(mmsub(mmsum(p[1], p[4]), p[5]), p[7])
       [] q = <<1, 2>> -> mmsum(p[3], p[5])
       [] q = <<2, 1>> -> mmsum(p[2], p[4])
       [] q = <<2, 2>> -> mmsum(mmsum(mmsub(p[1], p[2]), p[3]), p[6])]

-----------------------------------------------------------------------------
Operands ==
  {[program |-> "mergesort", input |-> Segment(0, Cardinality(DOMAIN a) - 1), numbers |-> a] :
     a \in Arrays}
    \cup [program : {"fib_dac", "omp_fibo"}, input : 0 .. FibMax, numbers : {<<>>}]
    \cup {[program |-> "strassen", numbers |-> <<>>,
           input |-> [a |-> [q \in Quadrant |-> Quad(q)],
                      b |-> [q \in Quadrant |-> Quad(q)], size |-> 2]]}

Program == dac.program

(* cond, and what seq, divide and combine return.                           *)
cond(op) ==
  CASE Program = "mergesort" -> op.right - op.left <= CUTOFF
    [] Program = "fib_dac" -> op <= 2
    [] Program = "omp_fibo" -> op < 2
    [] Program = "strassen" -> op.size <= 1

seq(op) ==
  CASE Program = "mergesort" -> op
    [] Program \in {"fib_dac", "omp_fibo"} -> 1
    [] Program = "strassen" -> seqMatMult(op.a, op.b)

divide(op) ==
  CASE Program = "mergesort" -> DivideSegment(op)
    [] Program \in {"fib_dac", "omp_fibo"} -> <<op - 1, op - 2>>
    [] Program = "strassen" -> DivideMatrices(op)

combine(ress) ==
  CASE Program = "mergesort" -> Segment(ress[1].left, ress[2].right)
    [] Program \in {"fib_dac", "omp_fibo"} -> ress[1] + ress[2]
    [] Program = "strassen" -> combineF(ress)

Root == <<>>
Children(p) == {Append(p, k) : k \in 1 .. Len(divide(calls[p].op))}
Call(op) == [op |-> op, divided |-> FALSE]

Init ==
  /\ dac \in Operands
  /\ calls = [p \in {Root} |-> Call(dac.input)]
  /\ results = [p \in {} |-> 0]
  /\ array = dac.numbers

(* The calls that any thread may execute next.                              *)
Ready == {p \in DOMAIN calls : ~calls[p].divided}

(* A call is executed: it creates the calls of its parts ...                *)
Divide(p) ==
  /\ p \in Ready /\ ~cond(calls[p].op)
  /\ LET subops == divide(calls[p].op)
     IN  calls' = [c \in DOMAIN calls \cup Children(p) |->
                     IF c = p THEN [calls[p] EXCEPT !.divided = TRUE]
                     ELSE IF c \in DOMAIN calls THEN calls[c]
                     ELSE Call(subops[Last(c)])]
  /\ UNCHANGED <<dac, results, array>>

Return(p, gone, value) ==
  /\ calls' = [c \in DOMAIN calls \ {p} |-> calls[c]]
  /\ results' = [c \in (DOMAIN results \ gone) \cup {p} |-> IF c = p THEN value ELSE results[c]]

(* ... or solves the operand.                                               *)
Solve(p) ==
  /\ p \in Ready /\ cond(calls[p].op)
  /\ Return(p, {}, seq(calls[p].op))
  /\ array' = IF Program = "mergesort" THEN SeqSort(array, calls[p].op) ELSE array
  /\ UNCHANGED dac

(* taskwait, and ff_DC's counting of the parts.                             *)
Waited(p) == Children(p) \subseteq DOMAIN results

Combine(p) ==
  /\ p \in DOMAIN calls /\ calls[p].divided
  /\ Waited(p)
  /\ LET ress == [k \in 1 .. Cardinality(Children(p)) |-> results[Append(p, k)]]
     IN  /\ Return(p, Children(p), combine(ress))
         /\ array' = IF Program = "mergesort" THEN mergeMS(array, ress) ELSE array
  /\ UNCHANGED dac

Over == Root \in DOMAIN results
Ended == Over /\ UNCHANGED vars

Next == (\E p \in DOMAIN calls : Divide(p) \/ Solve(p) \/ Combine(p)) \/ Ended

-----------------------------------------------------------------------------
(* omp_fibo and fib_dac number the Fibonacci numbers differently.           *)
Fib[n \in Nat] == IF n < 2 THEN 1 ELSE Fib[n - 1] + Fib[n - 2]

(* Calls that may run at the same time work on disjoint segments.           *)
Disjoint ==
  Program = "mergesort" =>
    \A p, q \in DOMAIN calls :
      \/ IsPrefix(p, q) \/ IsPrefix(q, p)
      \/ calls[p].op.right < calls[q].op.left \/ calls[q].op.right < calls[p].op.left

Occurrences(a, v) == Cardinality({i \in DOMAIN a : a[i] = v})

(* The result of the root: the numbers in order, the Fibonacci number, the  *)
(* product of the matrices.                                                 *)
DividedResult ==
  Over =>
    CASE Program = "mergesort" ->
           /\ \A i, j \in DOMAIN array : i < j => array[i] <= array[j]
           /\ \A i \in DOMAIN array :
                Occurrences(array, array[i]) = Occurrences(dac.numbers, array[i])
      [] Program = "omp_fibo" -> results[Root] = Fib[dac.input]
      [] Program = "fib_dac" -> results[Root] = IF dac.input = 0 THEN 1 ELSE Fib[dac.input - 1]
      [] Program = "strassen" -> \A q \in Quadrant : results[Root][q] = ProductAt(q)
=============================================================================
