---------------------------- MODULE StrassenAlgebra ----------------------------
(***************************************************************************)
(* The matrices of the Strassen programs of example8, in quadrants: a sum  *)
(* of quadrants of A or of B is its coefficients, a product of two such    *)
(* sums the coefficients of all the products of a quadrant of A with one   *)
(* of B, which do not commute.                                             *)
(***************************************************************************)
EXTENDS Integers

Quadrant == {1, 2} \X {1, 2}
Product == Quadrant \X Quadrant

Quad(q) == [c \in Quadrant |-> IF c = q THEN 1 ELSE 0]

(* A matrix that was written while it was read.                             *)
Torn == [c \in {} |-> 0]

mmsum(X, Y) == [c \in DOMAIN X \cap DOMAIN Y |-> X[c] + Y[c]]
mmsub(X, Y) == [c \in DOMAIN X \cap DOMAIN Y |-> X[c] - Y[c]]

seqMatMult(X, Y) ==
  IF Torn \in {X, Y} THEN Torn ELSE [c \in Product |-> X[c[1]] * Y[c[2]]]

(* The quadrant q of A * B.                                                 *)
ProductAt(q) ==
  [c \in Product |->
     IF c[1][1] = q[1] /\ c[1][2] = c[2][1] /\ c[2][2] = q[2] THEN 1 ELSE 0]
=============================================================================
