------------------------------- MODULE Wavefront -------------------------------
(***************************************************************************)
(* What the three programs of the exam compute: the upper triangle of an   *)
(* N x N matrix, an element from the elements on its left and below it.    *)
(* Element <<i, j>> is number j of diagonal i (row j, column j + i).  Of a *)
(* value only this is kept: "zero" before it is computed, "ok" when it is  *)
(* what Wf_seq.cpp computes, "bad" otherwise.                              *)
(***************************************************************************)
EXTENDS Integers, FiniteSets

CONSTANT N      \* size of the matrix

VARIABLE M

Diag(i) == {i} \X (0 .. N - 1 - i)
Cell == UNION {Diag(i) : i \in 0 .. N - 1}
Value == {"zero", "ok", "bad"}

(* The two factors of step k of the dot product.                            *)
Factors(c, k) == {<<c[1] - k - 1, c[2]>>, <<c[1] - k - 1, c[2] + k + 1>>}

Reads(c) == UNION {Factors(c, k) : k \in 0 .. c[1] - 1}

(* The value the loop over k and cbrt give: right for an element that is    *)
(* not on the major diagonal and whose factors are right.                   *)
DotProduct(m, c) ==
  IF c[1] > 0 /\ \A e \in Reads(c) : m[e] = "ok" THEN "ok" ELSE "bad"

InitialM == [c \in Cell |-> IF c[1] = 0 THEN "ok" ELSE "zero"]

Init == M = InitialM

Compute(c) ==
  /\ M[c] = "zero"
  /\ \A e \in Reads(c) : M[e] = "ok"
  /\ M' = [M EXCEPT ![c] = "ok"]

Next == \E c \in Cell : Compute(c)

Spec == Init /\ [][Next]_M /\ WF_M(Next)
=============================================================================
