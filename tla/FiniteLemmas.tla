------------------------------ MODULE FiniteLemmas ------------------------------
(***************************************************************************)
(* Facts the proofs about the components share: sums over finite sets, the *)
(* least element of a set of numbers, and what Head, Tail, Append and the  *)
(* concatenation do to the elements of a queue.  The induction over finite *)
(* sets is the well-foundedness of the strict subset ordering, applied to  *)
(* the set of the subsets for which the claim holds.                       *)
(***************************************************************************)
EXTENDS Integers, Sequences, FiniteSetsExt, FiniteSetTheorems, WellFoundedInduction, TLAPS

(* The sum of f[x] over the elements x of the finite set S.                 *)
SumOver(f, S) == MapThenSumSet(LAMBDA x : f[x], S)

(* The element the fold takes next.                                         *)
Any(s) == CHOOSE x \in s : TRUE

(* g adds up f over the sets in D.                                          *)
Adds(g, f, D) ==
  g = [s \in D |-> IF s = {} THEN 0 ELSE f[Any(s)] + g[s \ {Any(s)}]]

(* The recursive function behind the fold.                                  *)
Partial(f, S) == CHOOSE g : Adds(g, f, SUBSET S)

(* The definitions of the community modules, folded.                        *)
LEMMA SumIsPartial ==
  ASSUME NEW f, NEW S
  PROVE  SumOver(f, S) = Partial(f, S)[S]
BY DEF SumOver, Partial, MapThenSumSet, MapThenFoldSet, Adds, Any

(* A finite set that is not in C has a smallest subset that is not in C.    *)
LEMMA SmallestSubset ==
  ASSUME NEW S, IsFiniteSet(S), NEW C, S \notin C
  PROVE  \E T \in SUBSET S : T \notin C /\ \A U \in SUBSET T : U # T => U \in C
<1>. DEFINE D == {T \in SUBSET S : T \notin C}
<1>1. D \subseteq FiniteSubsetsOf(S) /\ D # {}
  BY FS_FiniteSubsetsOfFinite
<1>2. \E T \in D : \A U \in D : <<U, T>> \notin StrictSubsetOrdering(S)
  <2>. HIDE DEF D
  <2>. QED BY <1>1, WFMin, FS_StrictSubsetOrderingWellFounded
<1>. QED
  BY <1>2 DEF StrictSubsetOrdering

(* A non-empty set has an element to take.                                  *)
LEMMA AnyInSet ==
  ASSUME NEW s, s # {}
  PROVE  Any(s) \in s
BY DEF Any

(* The recursion determines the sum, whatever set of sets it is defined on. *)
LEMMA AddsEqual ==
  ASSUME NEW S, IsFiniteSet(S), NEW f, NEW g, NEW h, NEW D, NEW E,
         SUBSET S \subseteq D, SUBSET S \subseteq E,
         Adds(g, f, D), Adds(h, f, E)
  PROVE  g[S] = h[S]
<1>. DEFINE C == {T \in SUBSET S : g[T] = h[T]}
<1>. SUFFICES ASSUME S \notin C PROVE FALSE
  OBVIOUS
<1>1. PICK T \in SUBSET S : T \notin C /\ \A U \in SUBSET T : U # T => U \in C
  <2>. HIDE DEF C
  <2>. QED BY SmallestSubset
<1>2. g[T] = (IF T = {} THEN 0 ELSE f[Any(T)] + g[T \ {Any(T)}])
  BY DEF Adds
<1>3. h[T] = (IF T = {} THEN 0 ELSE f[Any(T)] + h[T \ {Any(T)}])
  BY DEF Adds
<1>4. CASE T = {}
  BY <1>1, <1>2, <1>3, <1>4
<1>5. CASE T # {}
  <2>1. T \ {Any(T)} \in SUBSET T /\ T \ {Any(T)} # T
    BY <1>5, AnyInSet
  <2>2. g[T \ {Any(T)}] = h[T \ {Any(T)}]
    BY <1>1, <2>1
  <2>. QED
    BY <1>1, <1>2, <1>3, <1>5, <2>2
<1>. QED
  BY <1>4, <1>5

(* The recursion, one step of it: the element that is taken, and the rest.  *)
LEMMA SumStep ==
  ASSUME NEW S, IsFiniteSet(S), NEW f
  PROVE  SumOver(f, S) = IF S = {} THEN 0 ELSE f[Any(S)] + SumOver(f, S \ {Any(S)})
<1>. DEFINE Next(T) == IF T = {} THEN 0 ELSE f[Any(T)] + SumOver(f, T \ {Any(T)})
            C == {T \in SUBSET S : SumOver(f, T) = Next(T)}
<1>. SUFFICES ASSUME S \notin C PROVE FALSE
  OBVIOUS
<1>1. PICK T \in SUBSET S : T \notin C /\ \A U \in SUBSET T : U # T => U \in C
  <2>. HIDE DEF C
  <2>. QED BY SmallestSubset
<1>. DEFINE g == [U \in SUBSET T |-> IF U = T THEN Next(T) ELSE SumOver(f, U)]
            p == Partial(f, T)
<1>2. Adds(g, f, SUBSET T)
  <2>. SUFFICES ASSUME NEW U \in SUBSET T
                PROVE  g[U] = (IF U = {} THEN 0 ELSE f[Any(U)] + g[U \ {Any(U)}])
    BY DEF Adds
  <2>0. U # {} => U \ {Any(U)} \in SUBSET T /\ U \ {Any(U)} # T
    BY AnyInSet
  <2>1. g[U] = Next(U)
    BY <1>1
  <2>2. U # {} => g[U \ {Any(U)}] = SumOver(f, U \ {Any(U)})
    BY <2>0
  <2>. QED
    BY <2>1, <2>2
<1>3. Adds(p, f, SUBSET T)
  <2>. HIDE DEF g
  <2>. QED BY <1>2 DEF Partial
<1>4. SumOver(f, T) = p[T]
  BY SumIsPartial
<1>5. IsFiniteSet(T)
  BY FS_Subset
<1>6. p[T] = g[T]
  <2>. HIDE DEF p, g
  <2>. QED BY <1>2, <1>3, <1>5, AddsEqual
<1>7. g[T] = Next(T)
  OBVIOUS
<1>. QED
  BY <1>1, <1>4, <1>6, <1>7

(* A non-empty set of natural numbers has a least element.                  *)
LEMMA LeastNatural ==
  ASSUME NEW C \in SUBSET Nat, C # {}
  PROVE  \E n \in C : \A k \in C : n <= k
<1>. DEFINE D == {0 .. n : n \in C}
<1>1. D \subseteq FiniteSubsetsOf(Nat) /\ D # {}
  <2>1. \A n \in C : 0 .. n \in SUBSET Nat /\ IsFiniteSet(0 .. n)
    BY FS_Interval
  <2>. QED
    BY <2>1 DEF FiniteSubsetsOf
<1>2. \E T \in D : \A U \in D : <<U, T>> \notin StrictSubsetOrdering(Nat)
  <2>. HIDE DEF D
  <2>. QED BY <1>1, WFMin, FS_StrictSubsetOrderingWellFounded
<1>3. PICK n \in C : \A k \in C : <<0 .. k, 0 .. n>> \notin StrictSubsetOrdering(Nat)
  BY <1>2
<1>4. ASSUME NEW k \in C, k < n PROVE FALSE
  <2>1. 0 .. k \subseteq 0 .. n /\ n \in 0 .. n /\ n \notin 0 .. k
    BY <1>4
  <2>2. 0 .. k \in SUBSET Nat /\ 0 .. n \in SUBSET Nat /\ 0 .. k # 0 .. n
    BY <2>1
  <2>3. <<0 .. k, 0 .. n>> \in StrictSubsetOrdering(Nat)
    BY <2>1, <2>2, Zenon DEF StrictSubsetOrdering
  <2>. QED
    BY <1>3, <2>3
<1>. QED
  BY <1>4

(* Quotient and remainder.                                                  *)
LEMMA Division ==
  ASSUME NEW a \in Nat, NEW d \in Nat \ {0}
  PROVE  a \div d \in Nat /\ a % d \in 0 .. d - 1 /\ a = d * (a \div d) + (a % d)
<1>1. d \in Int /\ d > 0 /\ a \in Int
  OBVIOUS
<1>2. a = d * (a \div d) + (a % d)
  BY <1>1, SMTT(30)
<1>3. a \div d \in Nat /\ a % d \in 0 .. d - 1
  OBVIOUS
<1>. QED
  BY <1>2, <1>3

(* A quotient is below k when k times the divisor is not reached.            *)
LEMMA QuotientBound ==
  ASSUME NEW a \in Nat, NEW d \in Nat \ {0}, NEW k \in Nat, a < k * d
  PROVE  a \div d < k
<1>. DEFINE q == a \div d
<1>1. q \in Nat /\ a % d \in 0 .. d - 1 /\ a = d * q + (a % d)
  BY Division
<1>. HIDE DEF q
<1>2. SUFFICES ASSUME q >= k PROVE FALSE
  BY <1>1 DEF q
<1>3. PICK j \in Nat : q = k + j
  <2>1. q - k \in Nat /\ q = k + (q - k)
    BY <1>1, <1>2
  <2>. QED
    BY <2>1
<1>4. d * q = k * d + d * j /\ d * j \in Nat /\ k * d \in Nat
  BY <1>1, <1>3
<1>. QED
  BY <1>1, <1>4

(* A finite set of natural numbers has a greatest element.                  *)
LEMMA Greatest ==
  ASSUME NEW N0 \in Nat, NEW T \in SUBSET (0 .. N0), T # {}
  PROVE  \E m \in T : \A x \in T : x <= m
<1>. DEFINE C == {N0 - x : x \in T}
<1>0. \A x \in T : x \in Nat /\ N0 - x \in Nat
  OBVIOUS
<1>1. C \in SUBSET Nat /\ C # {}
  BY <1>0
<1>2. PICK c \in C : \A d \in C : c <= d
  <2>. HIDE DEF C
  <2>. QED BY <1>1, LeastNatural
<1>3. PICK m \in T : c = N0 - m
  BY <1>2
<1>4. \A x \in T : N0 - m <= N0 - x
  BY <1>2, <1>3
<1>. QED
  BY <1>4

(* The empty sum.                                                           *)
LEMMA SumEmpty ==
  ASSUME NEW f
  PROVE  SumOver(f, {}) = 0
BY SumStep, FS_EmptySet

(* The sum of integers is an integer, of natural numbers a natural number.  *)
LEMMA SumType ==
  ASSUME NEW S, IsFiniteSet(S), NEW f, NEW R, R = Nat \/ R = Int,
         \A x \in S : f[x] \in R
  PROVE  SumOver(f, S) \in R
<1>. DEFINE C == {T \in SUBSET S : SumOver(f, T) \in R}
<1>. SUFFICES ASSUME S \notin C PROVE FALSE
  OBVIOUS
<1>1. PICK T \in SUBSET S : T \notin C /\ \A U \in SUBSET T : U # T => U \in C
  <2>. HIDE DEF C
  <2>. QED BY SmallestSubset
<1>2. T # {}
  <2>1. SumOver(f, {}) \in R
    BY SumEmpty
  <2>. QED
    BY <1>1, <2>1
<1>3. Any(T) \in T /\ T \ {Any(T)} \in C
  BY <1>1, <1>2, AnyInSet
<1>4. SumOver(f, T) = f[Any(T)] + SumOver(f, T \ {Any(T)})
  BY <1>2, SumStep, FS_Subset
<1>5. f[Any(T)] \in R /\ SumOver(f, T \ {Any(T)}) \in R
  BY <1>3
<1>6. SumOver(f, T) \in R
  BY <1>4, <1>5
<1>. QED
  BY <1>1, <1>6

(* The sum depends on the values in S only.                                 *)
LEMMA SumEqual ==
  ASSUME NEW S, IsFiniteSet(S), NEW f, NEW g, \A x \in S : f[x] = g[x]
  PROVE  SumOver(f, S) = SumOver(g, S)
<1>. DEFINE C == {T \in SUBSET S : SumOver(f, T) = SumOver(g, T)}
<1>. SUFFICES ASSUME S \notin C PROVE FALSE
  OBVIOUS
<1>1. PICK T \in SUBSET S : T \notin C /\ \A U \in SUBSET T : U # T => U \in C
  <2>. HIDE DEF C
  <2>. QED BY SmallestSubset
<1>2. T # {}
  BY <1>1, SumEmpty
<1>3. Any(T) \in T /\ T \ {Any(T)} \in C
  BY <1>1, <1>2, AnyInSet
<1>4. /\ SumOver(f, T) = f[Any(T)] + SumOver(f, T \ {Any(T)})
      /\ SumOver(g, T) = g[Any(T)] + SumOver(g, T \ {Any(T)})
  BY <1>2, SumStep, FS_Subset
<1>. QED
  BY <1>1, <1>3, <1>4

(* The sum of zeroes.                                                       *)
LEMMA SumZero ==
  ASSUME NEW S, IsFiniteSet(S), NEW f, \A x \in S : f[x] = 0
  PROVE  SumOver(f, S) = 0
<1>. DEFINE C == {T \in SUBSET S : SumOver(f, T) = 0}
<1>. SUFFICES ASSUME S \notin C PROVE FALSE
  OBVIOUS
<1>1. PICK T \in SUBSET S : T \notin C /\ \A U \in SUBSET T : U # T => U \in C
  <2>. HIDE DEF C
  <2>. QED BY SmallestSubset
<1>2. T # {}
  BY <1>1, SumEmpty
<1>3. Any(T) \in T /\ T \ {Any(T)} \in C
  BY <1>1, <1>2, AnyInSet
<1>4. SumOver(f, T) = f[Any(T)] + SumOver(f, T \ {Any(T)})
  BY <1>2, SumStep, FS_Subset
<1>5. SumOver(f, T) = 0
  BY <1>3, <1>4
<1>. QED
  BY <1>1, <1>5

(* Any element may be added first.                                          *)
LEMMA SumRemove ==
  ASSUME NEW S, IsFiniteSet(S), NEW f, \A x \in S : f[x] \in Int, NEW e \in S
  PROVE  SumOver(f, S) = f[e] + SumOver(f, S \ {e})
<1>. DEFINE C == {T \in SUBSET S : \A x \in T : SumOver(f, T) = f[x] + SumOver(f, T \ {x})}
<1>. SUFFICES ASSUME S \notin C PROVE FALSE
  OBVIOUS
<1>1. PICK T \in SUBSET S : T \notin C /\ \A U \in SUBSET T : U # T => U \in C
  <2>. HIDE DEF C
  <2>. QED BY SmallestSubset
<1>2. PICK x \in T : SumOver(f, T) # f[x] + SumOver(f, T \ {x})
  BY <1>1
<1>. DEFINE a == Any(T)
<1>3. a \in T
  BY <1>2, AnyInSet
<1>4. SumOver(f, T) = f[a] + SumOver(f, T \ {a})
  BY <1>2, SumStep, FS_Subset
<1>5. a # x
  BY <1>2, <1>4
<1>. HIDE DEF a
<1>6. SumOver(f, T \ {a}) = f[x] + SumOver(f, (T \ {a}) \ {x})
  <2>1. T \ {a} \in C /\ x \in T \ {a}
    BY <1>1, <1>3, <1>5
  <2>. QED
    BY <2>1
<1>7. SumOver(f, T \ {x}) = f[a] + SumOver(f, (T \ {x}) \ {a})
  <2>1. T \ {x} \in C /\ a \in T \ {x}
    BY <1>1, <1>2, <1>3, <1>5
  <2>. QED
    BY <2>1
<1>8. SumOver(f, (T \ {x}) \ {a}) = SumOver(f, (T \ {a}) \ {x})
  <2>1. (T \ {x}) \ {a} = (T \ {a}) \ {x}
    OBVIOUS
  <2>. QED
    BY <2>1, Zenon
<1>9. f[a] \in Int /\ f[x] \in Int /\ SumOver(f, (T \ {a}) \ {x}) \in Int
  <2>1. (T \ {a}) \ {x} \in SUBSET S
    OBVIOUS
  <2>2. \A y \in (T \ {a}) \ {x} : f[y] \in Int
    OBVIOUS
  <2>3. IsFiniteSet((T \ {a}) \ {x})
    BY <2>1, FS_Subset
  <2>4. SumOver(f, (T \ {a}) \ {x}) \in Int
    BY <2>2, <2>3, SumType
  <2>. QED
    BY <1>2, <1>3, <2>4
<1>10. f[a] + (f[x] + SumOver(f, (T \ {a}) \ {x})) = f[x] + (f[a] + SumOver(f, (T \ {a}) \ {x}))
  BY <1>9
<1>11. SumOver(f, T) = f[x] + SumOver(f, T \ {x})
  BY <1>4, <1>6, <1>7, <1>8, <1>10, Zenon
<1>. QED
  BY <1>2, <1>11

(* The sum over two sets with nothing in common.                            *)
LEMMA SumUnion ==
  ASSUME NEW A, NEW B, IsFiniteSet(A), IsFiniteSet(B), A \cap B = {},
         NEW f, \A x \in A \cup B : f[x] \in Int
  PROVE  SumOver(f, A \cup B) = SumOver(f, A) + SumOver(f, B)
<1>. DEFINE C == {T \in SUBSET B : SumOver(f, A \cup T) = SumOver(f, A) + SumOver(f, T)}
<1>. SUFFICES ASSUME B \notin C PROVE FALSE
  OBVIOUS
<1>1. PICK T \in SUBSET B : T \notin C /\ \A U \in SUBSET T : U # T => U \in C
  <2>. HIDE DEF C
  <2>. QED BY SmallestSubset
<1>2. IsFiniteSet(T) /\ IsFiniteSet(A \cup T)
  BY FS_Subset, FS_Union
<1>3. T # {}
  <2>1. SumOver(f, A) \in Int
    BY SumType
  <2>2. A \cup {} = A /\ SumOver(f, A) = SumOver(f, A) + 0
    <3>. HIDE DEF SumOver
    <3>. QED BY <2>1
  <2>3. SumOver(f, {}) = 0
    BY SumEmpty
  <2>. QED
    BY <1>1, <2>2, <2>3
<1>4. PICK e \in T : TRUE
  BY <1>3
<1>5. T \ {e} \in C /\ (A \cup T) \ {e} = A \cup (T \ {e}) /\ e \in A \cup T
  BY <1>1, <1>4
<1>6. SumOver(f, A \cup T) = f[e] + SumOver(f, A \cup (T \ {e}))
  BY <1>2, <1>5, SumRemove
<1>7. SumOver(f, T) = f[e] + SumOver(f, T \ {e})
  BY <1>2, SumRemove
<1>8. SumOver(f, A \cup (T \ {e})) = SumOver(f, A) + SumOver(f, T \ {e})
  BY <1>5
<1>9. SumOver(f, A) \in Int /\ SumOver(f, T \ {e}) \in Int /\ f[e] \in Int
  <2>1. IsFiniteSet(T \ {e})
    BY <1>2, FS_Subset
  <2>. QED
    BY <2>1, SumType
<1>10. \A x, y, z \in Int : x + (y + z) = y + (x + z)
  OBVIOUS
<1>11. SumOver(f, A \cup T) = SumOver(f, A) + SumOver(f, T)
  <2>. HIDE DEF SumOver
  <2>. QED BY <1>6, <1>7, <1>8, <1>9, <1>10
<1>. QED
  BY <1>1, <1>11

(* The recursive function that adds up f over the subsets of S exists, and  *)
(* there is only one.                                                       *)
LEMMA SumAdds ==
  ASSUME NEW S, IsFiniteSet(S), NEW f
  PROVE  /\ Adds([T \in SUBSET S |-> SumOver(f, T)], f, SUBSET S)
         /\ \A g : Adds(g, f, SUBSET S) => g[S] = SumOver(f, S)
<1>. DEFINE h == [T \in SUBSET S |-> SumOver(f, T)]
<1>1. Adds(h, f, SUBSET S)
  <2>. SUFFICES ASSUME NEW U \in SUBSET S
                PROVE  SumOver(f, U) = (IF U = {} THEN 0 ELSE f[Any(U)] + h[U \ {Any(U)}])
    BY DEF Adds
  <2>1. IsFiniteSet(U) /\ U \ {Any(U)} \in SUBSET S
    BY FS_Subset
  <2>. QED
    BY <2>1, SumStep
<1>2. h[S] = SumOver(f, S)
  OBVIOUS
<1>. HIDE DEF h
<1>3. \A g : Adds(g, f, SUBSET S) => g[S] = h[S]
  BY <1>1, AddsEqual
<1>. QED
  BY <1>1, <1>2, <1>3 DEF h

(* The number of elements of T, added up.                                   *)
LEMMA SumIndicator ==
  ASSUME NEW S, IsFiniteSet(S), NEW T \in SUBSET S, NEW f,
         \A x \in S : f[x] = IF x \in T THEN 1 ELSE 0
  PROVE  SumOver(f, S) = Cardinality(T)
<1>. DEFINE C == {U \in SUBSET S : SumOver(f, U) = Cardinality(T \cap U)}
<1>1. S \in C => SumOver(f, S) = Cardinality(T)
  <2>1. T \cap S = T
    OBVIOUS
  <2>. QED
    BY <2>1
<1>2. SUFFICES ASSUME S \notin C PROVE FALSE
  BY <1>1
<1>3. PICK U \in SUBSET S : U \notin C /\ \A V \in SUBSET U : V # U => V \in C
  <2>. HIDE DEF C
  <2>. QED BY <1>2, SmallestSubset
<1>4. IsFiniteSet(U) /\ IsFiniteSet(T \cap U)
  <2>1. T \cap U \in SUBSET S
    OBVIOUS
  <2>. QED
    BY <2>1, FS_Subset
<1>5. CASE U = {}
  <2>1. SumOver(f, U) = 0 /\ T \cap U = {}
    BY <1>5, SumEmpty
  <2>. QED
    BY <1>3, <2>1, FS_EmptySet
<1>6. CASE U # {}
  <2>1. PICK e : e \in U
    BY <1>6
  <2>2. SumOver(f, U) = f[e] + SumOver(f, U \ {e})
    BY <1>4, <2>1, SumRemove
  <2>3. SumOver(f, U \ {e}) = Cardinality(T \cap (U \ {e}))
    BY <1>3, <2>1
  <2>4. T \cap (U \ {e}) = (T \cap U) \ {e}
    OBVIOUS
  <2>5. Cardinality((T \cap U) \ {e})
          = IF e \in T \cap U THEN Cardinality(T \cap U) - 1 ELSE Cardinality(T \cap U)
    BY <1>4, FS_RemoveElement
  <2>6. Cardinality(T \cap U) \in Nat
    BY <1>4, FS_CardinalityType
  <2>7. f[e] = IF e \in T \cap U THEN 1 ELSE 0
    BY <2>1
  <2>. QED
    BY <1>3, <2>2, <2>3, <2>4, <2>5, <2>6, <2>7
<1>. QED
  BY <1>5, <1>6

(* A change of f at one element changes the sum by as much.                 *)
LEMMA SumChange ==
  ASSUME NEW S, IsFiniteSet(S), NEW e \in S, NEW f, NEW g,
         \A x \in S : f[x] \in Int /\ g[x] \in Int,
         \A x \in S \ {e} : f[x] = g[x]
  PROVE  /\ SumOver(f, S) \in Int /\ SumOver(g, S) \in Int
         /\ SumOver(g, S) = SumOver(f, S) + (g[e] - f[e])
<1>1. SumOver(f, S) = f[e] + SumOver(f, S \ {e}) /\ SumOver(g, S) = g[e] + SumOver(g, S \ {e})
  BY SumRemove
<1>2. IsFiniteSet(S \ {e})
  BY FS_RemoveElement
<1>3. SumOver(f, S \ {e}) = SumOver(g, S \ {e})
  BY <1>2, SumEqual
<1>4. SumOver(f, S \ {e}) \in Int
  BY <1>2, SumType
<1>5. f[e] \in Int /\ g[e] \in Int
  OBVIOUS
<1>. HIDE DEF SumOver
<1>. QED
  BY <1>1, <1>3, <1>4, <1>5

-----------------------------------------------------------------------------
(* Sequences, and queues as sets.                                           *)

(* An element of a sequence, and its place.                                 *)
LEMMA SeqElement ==
  ASSUME NEW R, NEW q \in Seq(R), NEW k \in DOMAIN q
  PROVE  q[k] \in R /\ k \in 1 .. Len(q) /\ DOMAIN q = 1 .. Len(q)
OBVIOUS

(* One element of a sequence is replaced.                                   *)
LEMMA SeqUpdate ==
  ASSUME NEW R, NEW q \in Seq(R), NEW k \in DOMAIN q, NEW e \in R
  PROVE  /\ [q EXCEPT ![k] = e] \in Seq(R)
         /\ Len([q EXCEPT ![k] = e]) = Len(q) /\ DOMAIN [q EXCEPT ![k] = e] = DOMAIN q
         /\ \A j \in DOMAIN q : [q EXCEPT ![k] = e][j] = (IF j = k THEN e ELSE q[j])
OBVIOUS

(* The new element is the last one.                                         *)
LEMMA AppendElements ==
  ASSUME NEW R, NEW q \in Seq(R), NEW e
  PROVE  /\ Len(q) \in Nat /\ Len(Append(q, e)) = Len(q) + 1
         /\ Append(q, e)[Len(q) + 1] = e
         /\ \A j \in 1 .. Len(q) : Append(q, e)[j] = q[j]
OBVIOUS

(* Two sequences in a row.                                                  *)
LEMMA ConcatType ==
  ASSUME NEW R, NEW p \in Seq(R), NEW q \in Seq(R)
  PROVE  p \o q \in Seq(R) /\ Len(p \o q) = Len(p) + Len(q)
OBVIOUS

(* The head is taken off a queue.                                           *)
LEMMA TailRange ==
  ASSUME NEW R, NEW q \in Seq(R), q # <<>>
  PROVE  /\ Head(q) \in R /\ Head(q) \in Range(q)
         /\ Tail(q) \in Seq(R)
         /\ Range(q) = Range(Tail(q)) \cup {Head(q)}
         /\ IsInjective(q) => IsInjective(Tail(q)) /\ Head(q) \notin Range(Tail(q))
<1>1. /\ Tail(q) \in Seq(R) /\ Len(Tail(q)) = Len(q) - 1 /\ Len(q) \in Nat \ {0}
      /\ DOMAIN q = 1 .. Len(q) /\ DOMAIN Tail(q) = 1 .. Len(q) - 1
      /\ \A i \in 1 .. Len(q) - 1 : Tail(q)[i] = q[i + 1]
      /\ Head(q) = q[1] /\ Head(q) \in R
  OBVIOUS
<1>2. \A i \in DOMAIN q : i = 1 \/ (i - 1 \in DOMAIN Tail(q) /\ q[i] = Tail(q)[i - 1])
  BY <1>1
<1>3. \A i \in DOMAIN Tail(q) : i + 1 \in DOMAIN q /\ Tail(q)[i] = q[i + 1] /\ i + 1 # 1
  BY <1>1
<1>4. 1 \in DOMAIN q
  BY <1>1
<1>5. Range(q) = Range(Tail(q)) \cup {Head(q)}
  BY <1>1, <1>2, <1>3, <1>4 DEF Range
<1>6. ASSUME IsInjective(q)
      PROVE  IsInjective(Tail(q)) /\ Head(q) \notin Range(Tail(q))
  <2>1. \A i, j \in DOMAIN Tail(q) : i + 1 = j + 1 => i = j
    BY <1>1
  <2>2. IsInjective(Tail(q))
    BY <1>3, <1>6, <2>1 DEF IsInjective
  <2>3. Head(q) \notin Range(Tail(q))
    BY <1>1, <1>3, <1>4, <1>6 DEF IsInjective, Range
  <2>. QED
    BY <2>2, <2>3
<1>. QED
  BY <1>1, <1>4, <1>5, <1>6 DEF Range

(* The new element joins the others.                                        *)
LEMMA AppendRange ==
  ASSUME NEW R, NEW q \in Seq(R), NEW e \in R
  PROVE  /\ Append(q, e) \in Seq(R) /\ Append(q, e) # <<>>
         /\ Range(Append(q, e)) = Range(q) \cup {e}
         /\ IsInjective(q) /\ e \notin Range(q) => IsInjective(Append(q, e))
<1>. DEFINE p == Append(q, e)
            n == Len(q)
<1>1. /\ p \in Seq(R) /\ n \in Nat
      /\ DOMAIN q = 1 .. n /\ DOMAIN p = 1 .. n + 1
      /\ \A i \in 1 .. n : p[i] = q[i]
      /\ p[n + 1] = e
  OBVIOUS
<1>2. \A i \in DOMAIN p : i = n + 1 \/ i \in DOMAIN q
  BY <1>1
<1>3. n + 1 \in DOMAIN p /\ \A i \in DOMAIN q : i \in DOMAIN p /\ i # n + 1
  BY <1>1
<1>4. \A i \in DOMAIN q : p[i] = q[i]
  BY <1>1
<1>5. p[n + 1] = e /\ p \in Seq(R)
  BY <1>1
<1>6. p # <<>>
  <2>1. 1 \in DOMAIN p
    BY <1>1
  <2>. QED
    BY <2>1
<1>. HIDE DEF p, n
<1>7. Range(p) = Range(q) \cup {e}
  BY <1>2, <1>3, <1>4, <1>5 DEF Range
<1>8. ASSUME IsInjective(q), e \notin Range(q) PROVE IsInjective(p)
  BY <1>2, <1>3, <1>4, <1>5, <1>8 DEF IsInjective, Range
<1>. QED
  BY <1>5, <1>6, <1>7, <1>8 DEF p

(* Two new elements before a queue.                                         *)
LEMMA PushRange ==
  ASSUME NEW R, NEW q \in Seq(R), NEW a \in R, NEW b \in R
  PROVE  /\ <<a, b>> \o q \in Seq(R) /\ <<a, b>> \o q # <<>>
         /\ Range(<<a, b>> \o q) = Range(q) \cup {a, b}
         /\ IsInjective(q) /\ a # b /\ a \notin Range(q) /\ b \notin Range(q)
              => IsInjective(<<a, b>> \o q)
<1>. DEFINE p == <<a, b>> \o q
            n == Len(q)
<1>1. /\ p \in Seq(R) /\ n \in Nat /\ p # <<>>
      /\ DOMAIN q = 1 .. n /\ DOMAIN p = 1 .. n + 2
      /\ \A i \in 1 .. n : p[i + 2] = q[i]
      /\ p[1] = a /\ p[2] = b
  OBVIOUS
<1>2. \A i \in DOMAIN p : i = 1 \/ i = 2 \/ (i - 2 \in DOMAIN q /\ p[i] = q[i - 2] /\ i = (i - 2) + 2)
  BY <1>1
<1>3. /\ 1 \in DOMAIN p /\ 2 \in DOMAIN p
      /\ \A i \in DOMAIN q : i + 2 \in DOMAIN p /\ p[i + 2] = q[i]
  BY <1>1
<1>4. p[1] = a /\ p[2] = b /\ p \in Seq(R) /\ p # <<>>
  BY <1>1
<1>. HIDE DEF p, n
<1>5. Range(p) = Range(q) \cup {a, b}
  BY <1>2, <1>3, <1>4 DEF Range
<1>6. ASSUME IsInjective(q), a # b, a \notin Range(q), b \notin Range(q)
      PROVE  IsInjective(p)
  <2>1. \A i \in DOMAIN p : i \notin {1, 2} => p[i] \in Range(q)
    BY <1>2 DEF Range
  <2>2. \A i, j \in DOMAIN p : p[i] = p[j] /\ (i \in {1, 2} \/ j \in {1, 2}) => i = j
    BY <1>4, <1>6, <2>1
  <2>3. ASSUME NEW i \in DOMAIN p, NEW j \in DOMAIN p, p[i] = p[j],
               i \notin {1, 2}, j \notin {1, 2}
        PROVE  i = j
    <3>1. q[i - 2] = q[j - 2] /\ i - 2 \in DOMAIN q /\ j - 2 \in DOMAIN q
      BY <1>2, <2>3
    <3>2. i - 2 = j - 2
      BY <1>6, <3>1 DEF IsInjective
    <3>. QED
      BY <1>2, <2>3, <3>2
  <2>. QED
    BY <2>2, <2>3 DEF IsInjective
<1>. QED
  BY <1>4, <1>5, <1>6 DEF p
-----------------------------------------------------------------------------
(* How many elements of a queue are in a set.                               *)

Among(q, P) == Cardinality({k \in DOMAIN q : q[k] \in P})

LEMMA AmongType ==
  ASSUME NEW R, NEW q \in Seq(R), NEW P
  PROVE  /\ IsFiniteSet({k \in DOMAIN q : q[k] \in P})
         /\ Among(q, P) \in Nat
         /\ Among(q, P) = 0 <=> \A k \in DOMAIN q : q[k] \notin P
<1>1. DOMAIN q = 1 .. Len(q) /\ Len(q) \in Nat
  OBVIOUS
<1>2. IsFiniteSet(DOMAIN q)
  BY <1>1, FS_Interval
<1>3. IsFiniteSet({k \in DOMAIN q : q[k] \in P})
  BY <1>2, FS_Subset
<1>. QED
  BY <1>3, FS_CardinalityType, FS_EmptySet DEF Among

LEMMA AmongEmpty ==
  ASSUME NEW P
  PROVE  Among(<<>>, P) = 0
<1>1. {k \in DOMAIN <<>> : <<>>[k] \in P} = {}
  OBVIOUS
<1>. QED
  BY <1>1, FS_EmptySet DEF Among

(* An element joins the queue.                                              *)
LEMMA AmongAppend ==
  ASSUME NEW R, NEW q \in Seq(R), NEW m, NEW P
  PROVE  Among(Append(q, m), P) = Among(q, P) + (IF m \in P THEN 1 ELSE 0)
<1>. DEFINE A == {k \in DOMAIN q : q[k] \in P}
            B == {k \in DOMAIN Append(q, m) : Append(q, m)[k] \in P}
            n == Len(q) + 1
<1>1. /\ DOMAIN q = 1 .. Len(q) /\ Len(q) \in Nat /\ DOMAIN Append(q, m) = 1 .. n
      /\ Append(q, m)[n] = m /\ \A k \in 1 .. Len(q) : Append(q, m)[k] = q[k]
  OBVIOUS
<1>2. \A k : k \in 1 .. n <=> k \in 1 .. Len(q) \/ k = n
  BY <1>1
<1>3. B = IF m \in P THEN A \cup {n} ELSE A
  BY <1>1, <1>2
<1>4. n \notin A
  BY <1>1
<1>5. IsFiniteSet(A) /\ Cardinality(A) \in Nat
  BY AmongType DEF Among
<1>. HIDE DEF A, B, n
<1>6. Cardinality(A \cup {n}) = Cardinality(A) + 1
  BY <1>4, <1>5, FS_AddElement
<1>7. Cardinality(B) = Cardinality(A) + (IF m \in P THEN 1 ELSE 0)
  <2>1. CASE m \in P
    BY <1>3, <1>6, <2>1
  <2>2. CASE m \notin P
    BY <1>3, <1>5, <2>2
  <2>. QED
    BY <2>1, <2>2
<1>. QED
  BY <1>7 DEF Among, A, B

(* The head leaves the queue.                                               *)
LEMMA AmongTail ==
  ASSUME NEW R, NEW q \in Seq(R), q # <<>>, NEW P
  PROVE  Among(q, P) = Among(Tail(q), P) + (IF Head(q) \in P THEN 1 ELSE 0)
<1>. DEFINE A == {k \in DOMAIN q : q[k] \in P}
            B == {k \in DOMAIN Tail(q) : Tail(q)[k] \in P}
            f == [k \in B |-> k + 1]
<1>1. /\ DOMAIN q = 1 .. Len(q) /\ Len(q) \in Nat \ {0}
      /\ DOMAIN Tail(q) = 1 .. Len(q) - 1
      /\ \A k \in 1 .. Len(q) - 1 : Tail(q)[k] = q[k + 1]
      /\ Head(q) = q[1] /\ Tail(q) \in Seq(R)
  OBVIOUS
<1>2. f \in Bijection(B, A \ {1})
  <2>1. \A k \in B : f[k] = k + 1 /\ k \in 1 .. Len(q) - 1 /\ k + 1 \in A \ {1}
    BY <1>1
  <2>2. \A j \in A \ {1} : j - 1 \in B /\ j = (j - 1) + 1
    BY <1>1
  <2>3. f \in [B -> A \ {1}]
    BY <2>1
  <2>4. \A a, b \in B : f[a] = f[b] => a = b
    BY <2>1
  <2>5. \A j \in A \ {1} : \E k \in B : f[k] = j
    BY <2>1, <2>2
  <2>. QED
    BY <2>3, <2>4, <2>5 DEF Bijection, Injection, Surjection, IsInjective
<1>3. IsFiniteSet(A) /\ IsFiniteSet(B)
  BY <1>1, AmongType
<1>4. 1 \in A <=> Head(q) \in P
  BY <1>1
<1>. HIDE DEF A, B, f
<1>5. Cardinality(A \ {1}) = Cardinality(B)
  BY <1>2, <1>3, FS_Bijection DEF ExistsBijection
<1>6. Cardinality(A) \in Nat
      /\ Cardinality(A \ {1}) = IF 1 \in A THEN Cardinality(A) - 1 ELSE Cardinality(A)
  BY <1>3, FS_RemoveElement, FS_CardinalityType
<1>7. Cardinality(A) = Cardinality(B) + (IF Head(q) \in P THEN 1 ELSE 0)
  <2>1. CASE 1 \in A
    BY <1>4, <1>5, <1>6, <2>1
  <2>2. CASE 1 \notin A
    BY <1>4, <1>5, <1>6, <2>2
  <2>. QED
    BY <2>1, <2>2
<1>. QED
  BY <1>7 DEF Among, A, B

(* The last element leaves the queue.                                       *)
LEMMA AmongFront ==
  ASSUME NEW R, NEW q \in Seq(R), q # <<>>, NEW P
  PROVE  LET front == SubSeq(q, 1, Len(q) - 1)
             last == q[Len(q)]
         IN  /\ front \in Seq(R) /\ last \in R
             /\ Among(q, P) = Among(front, P) + (IF last \in P THEN 1 ELSE 0)
<1>1. /\ Len(q) \in Nat \ {0} /\ DOMAIN q = 1 .. Len(q) /\ q[Len(q)] \in R
      /\ q \in [1 .. Len(q) -> R]
  OBVIOUS
<1>2. PICK n \in Nat : n + 1 = Len(q)
  <2>1. Len(q) - 1 \in Nat /\ (Len(q) - 1) + 1 = Len(q)
    BY <1>1
  <2>. QED
    BY <2>1
<1>3. PICK front : front = SubSeq(q, 1, n)
  OBVIOUS
<1>4. /\ front \in Seq(R) /\ Len(front) = n /\ \A k \in 1 .. n : front[k] = q[k]
  BY <1>1, <1>2, <1>3
<1>5. PICK last \in R : last = q[Len(q)]
  BY <1>1
<1>6. PICK all : all = Append(front, last)
  OBVIOUS
<1>7. /\ all \in Seq(R) /\ Len(all) = n + 1 /\ all[n + 1] = last
      /\ \A k \in 1 .. n : all[k] = front[k]
  BY <1>4, <1>5, <1>6
<1>8. \A k \in 1 .. n + 1 : all[k] = q[k]
  <2>1. \A k \in 1 .. n + 1 : k \in 1 .. n \/ k = n + 1
    OBVIOUS
  <2>. QED
    BY <1>2, <1>4, <1>5, <1>7, <2>1
<1>9. all = q
  BY <1>2, <1>7, <1>8
<1>10. Among(Append(front, last), P) = Among(front, P) + (IF last \in P THEN 1 ELSE 0)
  BY <1>4, AmongAppend
<1>11. Len(q) - 1 = n
  BY <1>2
<1>. QED
  BY <1>3, <1>4, <1>5, <1>6, <1>9, <1>10, <1>11
=============================================================================
