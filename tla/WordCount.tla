------------------------------- MODULE WordCount -------------------------------
(***************************************************************************)
(* What the word count programs compute, as Word-Count-seq.cpp does: how   *)
(* often each word occurs in the files of the list, and how many there are *)
(* in all.  A file is a sequence of lines, a line a sequence of words; a   *)
(* token is its position <<file, line, place in the line>>.                *)
(***************************************************************************)
EXTENDS Integers, Sequences, FiniteSets

CONSTANTS
  Word,
  Text       \* the files of the list, in order

ASSUME TextAssumption == Text \in Seq(Seq(Seq(Word)))

Position ==
  UNION {UNION {{<<f, l, k>> : k \in DOMAIN Text[f][l]} : l \in DOMAIN Text[f]} : f \in DOMAIN Text}

WordAt(p) == Text[p[1]][p[2]][p[3]]

Zero == [w \in Word |-> 0]
Add(m1, m2) == [w \in Word |-> m1[w] + m2[w]]

(* What tokenize_line adds to a map for the tokens in P.                    *)
tokenize_line(P) == [w \in Word |-> Cardinality({p \in P : WordAt(p) = w})]

(* A thread works on a line that is not empty, or on a file.                *)
UnitOf(grain, p) == IF grain = "line" THEN <<p[1], p[2]>> ELSE <<p[1]>>
Units(grain) == IF grain = "line" THEN {UnitOf(grain, p) : p \in Position}
                                  ELSE {<<f>> : f \in DOMAIN Text}
Tokens(grain, U) == {p \in Position : UnitOf(grain, p) \in U}

(* The order of the text: u is the first of S.                              *)
Before(u, v) == \E i \in DOMAIN u : u[i] < v[i] /\ \A j \in 1 .. i - 1 : u[j] = v[j]
First(u, S) == u \in S /\ \A v \in S \ {u} : Before(u, v)

(* UM and total_words of the sequential program.                            *)
SequentialUM == tokenize_line(Position)
SequentialTotal == Cardinality(Position)
=============================================================================
