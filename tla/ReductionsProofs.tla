---------------------------- MODULE ReductionsProofs ----------------------------
(***************************************************************************)
(* The parallel word counts lose no word and count none twice, for every   *)
(* text, every set of words and every number of threads or workers; the    *)
(* programs that look for primes find all of them, once, for every range.  *)
(*                                                                         *)
(* The OpenMP programs: NothingLost is a sum over the threads.  A thread   *)
(* that is inside the critical section holds in reg what it read; the sum  *)
(* is kept because the counter has not moved since (ValueInv), and that    *)
(* because nobody else is inside (MutexInv).  The total is kept the same   *)
(* way (WordsInv), and a barrier is passed only with nothing left in hand  *)
(* (EndInv), which makes the sums the result of the region.                *)
(*                                                                         *)
(* The farm: a task is in one place at most, from the moment it is sent to *)
(* the one it is added (PlaceInv), so that no addition is repeated, and in *)
(* one at least (DrainInv), so that when the emitter ends none is missing. *)
(*                                                                         *)
(* The primes: parts, chunks and what is not sent yet split the range      *)
(* (ApartInv, WithinInv), every prime is in one of them or in a list       *)
(* (CoverInv), the lists hold primes, once each (FoundInv, ResultInv), and *)
(* the programs that do not sort have one part per worker, in order        *)
(* (InRowInv).                                                             *)
(***************************************************************************)
EXTENDS Reductions, FiniteLemmas

(* The image of a finite set.                                               *)
LEMMA ImageFinite ==
  ASSUME NEW S, IsFiniteSet(S), NEW f
  PROVE  IsFiniteSet({f[x] : x \in S})
<1>. DEFINE T == {f[x] : x \in S}
            g == [x \in S |-> f[x]]
<1>1. g \in Surjection(S, T)
  BY DEF Surjection
<1>. QED
  BY <1>1, FS_Surjection

(* The text has finitely many tokens.                                       *)
LEMMA PositionFinite == IsFiniteSet(Position)
<1>1. ASSUME NEW R, NEW q \in Seq(R)
      PROVE  IsFiniteSet(DOMAIN q) /\ \A k \in DOMAIN q : q[k] \in R
  <2>1. DOMAIN q = 1 .. Len(q) /\ Len(q) \in Nat
    OBVIOUS
  <2>. QED
    BY <2>1, FS_Interval
<1>. DEFINE Places(f, l) == {<<f, l, k>> : k \in DOMAIN Text[f][l]}
            Lines(f) == {Places(f, l) : l \in DOMAIN Text[f]}
            Files == {UNION Lines(f) : f \in DOMAIN Text}
<1>2. ASSUME NEW f \in DOMAIN Text, NEW l \in DOMAIN Text[f]
      PROVE  IsFiniteSet(Places(f, l))
  <2>1. Text[f] \in Seq(Seq(Word))
    BY <1>1, TextAssumption
  <2>2. Text[f][l] \in Seq(Word)
    BY <1>1, <2>1
  <2>. DEFINE g == [k \in DOMAIN Text[f][l] |-> <<f, l, k>>]
  <2>3. IsFiniteSet({g[k] : k \in DOMAIN Text[f][l]})
    <3>. HIDE DEF g
    <3>. QED BY <1>1, <2>2, ImageFinite
  <2>4. {g[k] : k \in DOMAIN Text[f][l]} = Places(f, l)
    OBVIOUS
  <2>. QED
    BY <2>3, <2>4
<1>3. ASSUME NEW f \in DOMAIN Text
      PROVE  IsFiniteSet(UNION Lines(f))
  <2>1. IsFiniteSet(DOMAIN Text[f])
    BY <1>1, TextAssumption
  <2>. DEFINE g == [l \in DOMAIN Text[f] |-> Places(f, l)]
  <2>2. IsFiniteSet({g[l] : l \in DOMAIN Text[f]})
    <3>. HIDE DEF g
    <3>. QED BY <2>1, ImageFinite
  <2>3. {g[l] : l \in DOMAIN Text[f]} = Lines(f)
    OBVIOUS
  <2>4. \A T \in Lines(f) : IsFiniteSet(T)
    BY <1>2
  <2>. HIDE DEF Lines, g
  <2>. QED
    BY <2>2, <2>3, <2>4, FS_UNION
<1>4. IsFiniteSet(Files)
  <2>1. IsFiniteSet(DOMAIN Text)
    BY <1>1, TextAssumption
  <2>. DEFINE g == [f \in DOMAIN Text |-> UNION Lines(f)]
  <2>2. IsFiniteSet({g[f] : f \in DOMAIN Text})
    <3>. HIDE DEF g
    <3>. QED BY <2>1, ImageFinite
  <2>3. {g[f] : f \in DOMAIN Text} = Files
    OBVIOUS
  <2>. QED
    BY <2>2, <2>3
<1>5. \A T \in Files : IsFiniteSet(T)
  BY <1>3
<1>6. Position = UNION Files
  BY Zenon DEF Position
<1>. HIDE DEF Files
<1>. QED
  BY <1>4, <1>5, <1>6, FS_UNION

(* The tokens that are the word w.                                          *)
Occurrences(P, w) == {p \in P : WordAt(p) = w}

(* The counts of some of the tokens are numbers.                            *)
LEMMA CountType ==
  ASSUME NEW P \in SUBSET Position
  PROVE  /\ tokenize_line(P) \in [Word -> Nat]
         /\ IsFiniteSet(P) /\ Cardinality(P) \in Nat
         /\ \A w \in Word : tokenize_line(P)[w] = Cardinality(Occurrences(P, w))
<1>1. IsFiniteSet(P) /\ Cardinality(P) \in Nat
  BY PositionFinite, FS_Subset, FS_CardinalityType
<1>2. \A w : IsFiniteSet(Occurrences(P, w)) /\ Cardinality(Occurrences(P, w)) \in Nat
  <2>1. \A w : Occurrences(P, w) \in SUBSET P
    BY DEF Occurrences
  <2>. QED
    BY <1>1, <2>1, FS_Subset, FS_CardinalityType
<1>3. tokenize_line(P) = [w \in Word |-> Cardinality(Occurrences(P, w))]
  BY DEF tokenize_line, Occurrences
<1>. QED
  BY <1>1, <1>2, <1>3

(* No token: no count.                                                      *)
LEMMA CountEmpty == tokenize_line({}) = Zero /\ Cardinality({}) = 0
<1>1. \A w : {p \in {} : WordAt(p) = w} = {}
  OBVIOUS
<1>. QED
  BY <1>1, FS_EmptySet DEF tokenize_line, Zero

(* Two finite sets with nothing in common.                                  *)
LEMMA CardinalityDisjoint ==
  ASSUME NEW P, NEW Q, IsFiniteSet(P), IsFiniteSet(Q), P \cap Q = {}
  PROVE  Cardinality(P \cup Q) = Cardinality(P) + Cardinality(Q)
<1>1. Cardinality(P \cup Q) = Cardinality(P) + Cardinality(Q) - 0
  BY FS_Union, FS_EmptySet
<1>2. Cardinality(P) \in Nat /\ Cardinality(Q) \in Nat
  BY FS_CardinalityType
<1>. QED
  BY <1>1, <1>2

(* The counts of two sets of tokens add up.                                 *)
LEMMA CountUnion ==
  ASSUME NEW P \in SUBSET Position, NEW Q \in SUBSET Position, P \cap Q = {}
  PROVE  /\ \A w \in Word :
              tokenize_line(P \cup Q)[w] = tokenize_line(P)[w] + tokenize_line(Q)[w]
         /\ Cardinality(P \cup Q) = Cardinality(P) + Cardinality(Q)
<1>1. IsFiniteSet(P) /\ IsFiniteSet(Q)
  BY CountType
<1>2. ASSUME NEW w \in Word
      PROVE  tokenize_line(P \cup Q)[w] = tokenize_line(P)[w] + tokenize_line(Q)[w]
  <2>1. /\ Occurrences(P \cup Q, w) = Occurrences(P, w) \cup Occurrences(Q, w)
        /\ Occurrences(P, w) \cap Occurrences(Q, w) = {}
        /\ Occurrences(P, w) \in SUBSET P /\ Occurrences(Q, w) \in SUBSET Q
    BY DEF Occurrences
  <2>2. IsFiniteSet(Occurrences(P, w)) /\ IsFiniteSet(Occurrences(Q, w))
    BY <1>1, <2>1, FS_Subset
  <2>3. Cardinality(Occurrences(P \cup Q, w))
          = Cardinality(Occurrences(P, w)) + Cardinality(Occurrences(Q, w))
    BY <2>1, <2>2, CardinalityDisjoint
  <2>. QED
    BY <2>3, CountType
<1>. QED
  BY <1>1, <1>2, CardinalityDisjoint

(* Every token is in a unit.                                                *)
LEMMA TokensOfAll ==
  ASSUME NEW g
  PROVE  Tokens(g, Units(g)) = Position
<1>1. ASSUME NEW p \in Position
      PROVE  UnitOf(g, p) \in Units(g)
  <2>1. PICK f \in DOMAIN Text :
          p \in UNION {{<<f, l, k>> : k \in DOMAIN Text[f][l]} : l \in DOMAIN Text[f]}
    BY <1>1 DEF Position
  <2>2. p[1] = f
    BY <2>1
  <2>. QED
    BY <2>2 DEF UnitOf, Units
<1>. QED
  BY <1>1 DEF Tokens

-----------------------------------------------------------------------------
(* The OpenMP programs.                                                     *)

(* Only the thread that holds the lock is inside the critical section.      *)
MutexInv == \A t \in Thread : pc[t] \in {"read", "write"} <=> lock = t

(* An idle thread has nothing to merge, and nobody has changed the counter  *)
(* a thread is about to write.                                              *)
ValueInv ==
  \A t \in Thread : /\ pc[t] = "idle" => delta[t] = Zero
                    /\ pc[t] = "write" => reg[t] = UM[word[t]]

(* Behind the last barrier no thread has anything to do.                    *)
EndInv == pass > Passes => \A t \in Thread : pc[t] = "idle" /\ rest[t] = {}

(* The words t has counted, or will count, but not added to total_words.    *)
Words == [t \in Thread |-> tw[t] + Cardinality(rest[t])]

(* Every pass adds the words of the whole text to total_words.              *)
WordsInv ==
  pass <= Passes =>
    total_words + SumOver(Words, Thread) + Cardinality(Unread) = pass * SequentialTotal

OmpInv ==
  TypeOK /\ MutexInv /\ ValueInv /\ EndInv /\ NothingLost /\ WordsInv /\ RegionsExact

(* The number of passes.                                                    *)
LEMMA PassesType ==
  ASSUME TypeOK
  PROVE  Passes \in {1, 3} /\ pass \in Nat \ {0} /\ (pass \in 2 .. Passes => program = "for")
BY DEF TypeOK, Passes

(* What the threads hold, and what nobody has read, are numbers of words.   *)
HeldNumbers ==
  /\ Unread \in SUBSET Position /\ Cardinality(Unread) \in Nat
  /\ \A t \in Thread : Words[t] \in Nat /\ rest[t] \in SUBSET Position
  /\ SumOver(Words, Thread) \in Nat
  /\ \A w \in Word : /\ tokenize_line(Unread)[w] \in Nat
                     /\ \A t \in Thread : Held(w)[t] \in Nat
                     /\ SumOver(Held(w), Thread) \in Nat

(* They follow from the types.                                              *)
LEMMA HeldType == TypeOK => HeldNumbers
<1>. SUFFICES ASSUME TypeOK PROVE HeldNumbers
  OBVIOUS
<1>1. Unread \in SUBSET Position
  BY DEF Unread, TokensOf, Tokens
<1>2. \A t \in Thread : rest[t] \in SUBSET Position
  BY DEF TypeOK
<1>3. \A P \in SUBSET Position : Cardinality(P) \in Nat /\ tokenize_line(P) \in [Word -> Nat]
  BY CountType
<1>4. \A t \in Thread : Words[t] \in Nat
  <2>1. \A t \in Thread : tw[t] \in Nat
    BY DEF TypeOK
  <2>. QED
    BY <1>2, <1>3, <2>1 DEF Words
<1>5. ASSUME NEW w \in Word
      PROVE  \A t \in Thread : Held(w)[t] \in Nat
  <2>1. \A t \in Thread : delta[t][w] \in Nat
    BY DEF TypeOK
  <2>2. \A t \in Thread : tokenize_line(rest[t])[w] \in Nat
    BY <1>2, <1>3
  <2>. QED
    BY <2>1, <2>2 DEF Held
<1>6. SumOver(Words, Thread) \in Nat
  BY <1>4, SumType, ThreadAssumption
<1>7. ASSUME NEW w \in Word
      PROVE  SumOver(Held(w), Thread) \in Nat
  BY <1>5, SumType, ThreadAssumption
<1>. QED
  BY <1>1, <1>2, <1>3, <1>4, <1>5, <1>6, <1>7 DEF HeldNumbers

(* The sums of what the threads hold, as the lemmas about sums name them.   *)
CountsSum ==
  pass <= Passes => \A w \in Word :
    UM[w] + SumOver(Held(w), Thread) + tokenize_line(Unread)[w] = SequentialUM[w]

(* It is the property.                                                      *)
LEMMA NothingLostSum == NothingLost <=> CountsSum
BY DEF NothingLost, CountsSum, SumOver

(* The steps of one thread.                                                 *)
LEMMA OmpTypeStep ==
  ASSUME TypeOK, Next
  PROVE  TypeOK'
<1>0. /\ UM \in [Word -> Nat] /\ delta \in [Thread -> [Word -> Nat]]
      /\ tw \in [Thread -> Nat] /\ total_words \in Nat /\ reg \in [Thread -> Nat]
  BY DEF TypeOK
<1>1. CASE CreateTask
  BY <1>1 DEF CreateTask, TypeOK, criticalVars, First, Unit
<1>2. ASSUME NEW t \in Thread, ThreadStep(t)
      PROVE  TypeOK'
  <2>1. CASE CountUnit(t)
    <3>1. PICK u \in pending : /\ pending' = pending \ {u}
                               /\ Merge(t, tokenize_line(TokensOf({u})))
                               /\ tw' = [tw EXCEPT ![t] = @ + Cardinality(TokensOf({u}))]
      BY <2>1 DEF CountUnit
    <3>2. /\ tokenize_line(TokensOf({u})) \in [Word -> Nat]
          /\ Cardinality(TokensOf({u})) \in Nat
      BY CountType DEF TokensOf, Tokens
    <3>. DEFINE counts == tokenize_line(TokensOf({u}))
                n == Cardinality(TokensOf({u}))
    <3>. HIDE DEF counts, n
    <3>3. tw' \in [Thread -> Nat]
      <4>1. tw' = [tw EXCEPT ![t] = @ + n] /\ n \in Nat
        BY <3>1, <3>2 DEF n
      <4>. QED
        BY <1>0, <4>1
    <3>4. delta' \in [Thread -> [Word -> Nat]]
      <4>1. delta' = [delta EXCEPT ![t] = counts] /\ counts \in [Word -> Nat]
        BY <3>1, <3>2 DEF counts, Merge
      <4>. QED
        BY <1>0, <4>1
    <3>. QED
      BY <2>1, <3>1, <3>3, <3>4 DEF CountUnit, TypeOK, Merge, Unit
  <2>2. CASE ReadFile(t)
    <3>1. \A U : TokensOf(U) \in SUBSET Position
      BY DEF TokensOf, Tokens
    <3>. QED
      BY <2>2, <3>1 DEF ReadFile, TypeOK, criticalVars, Unit
  <2>3. CASE CountToken(t)
    <3>1. PICK p \in rest[t] : /\ Merge(t, tokenize_line({p}))
                               /\ rest' = [rest EXCEPT ![t] = @ \ {p}]
      BY <2>3 DEF CountToken
    <3>2. tokenize_line({p}) \in [Word -> Nat]
      BY CountType DEF TypeOK
    <3>3. tw' \in [Thread -> Nat] /\ delta' \in [Thread -> [Word -> Nat]]
      <4>. DEFINE counts == tokenize_line({p})
      <4>. HIDE DEF counts
      <4>1. delta' = [delta EXCEPT ![t] = counts] /\ counts \in [Word -> Nat]
        BY <3>1, <3>2 DEF counts, Merge
      <4>2. tw' = [tw EXCEPT ![t] = @ + 1]
        BY <2>3 DEF CountToken
      <4>. QED
        BY <1>0, <4>1, <4>2
    <3>. QED
      BY <2>3, <3>1, <3>3 DEF CountToken, TypeOK, Merge, Unit
  <2>4. CASE EnterCritical(t)
    <3>1. tw' \in [Thread -> Nat] /\ total_words' \in Nat
      BY <1>0, <2>4 DEF EnterCritical
    <3>. QED
      BY <2>4, <3>1 DEF EnterCritical, Enter, TypeOK, Unit
  <2>5. CASE ReadCounter(t) /\ UNCHANGED ompVars
    <3>1. PICK w \in Word : word' = [word EXCEPT ![t] = w] /\ reg' = [reg EXCEPT ![t] = UM[w]]
      BY <2>5 DEF ReadCounter
    <3>2. \A s \in Thread : pc'[s] = "write" => word'[s] \in Word
      BY <2>5, <3>1 DEF ReadCounter, TypeOK
    <3>. QED
      BY <2>5, <3>1, <3>2 DEF ReadCounter, ompVars, TypeOK, Unit
  <2>6. CASE WriteCounter(t) /\ UNCHANGED ompVars
    <3>1. word[t] \in Word
      BY <2>6 DEF WriteCounter, TypeOK
    <3>2. UM' \in [Word -> Nat]
      BY <1>0, <2>6, <3>1 DEF WriteCounter
    <3>3. delta' \in [Thread -> [Word -> Nat]]
      BY <1>0, <2>6, <3>1 DEF WriteCounter
    <3>. QED
      BY <2>6, <3>2, <3>3 DEF WriteCounter, ompVars, TypeOK, Unit
  <2>7. CASE Leave(t) /\ UNCHANGED ompVars
    BY <2>7 DEF Leave, ompVars, TypeOK, Unit
  <2>. QED
    BY <1>2, <2>1, <2>2, <2>3, <2>4, <2>5, <2>6, <2>7 DEF ThreadStep, InCritical
<1>3. CASE EndRegion
  <2>1. pass' \in 1 .. 4
    BY <1>3 DEF EndRegion, TypeOK, Passes, Program
  <2>2. SumOver(tw, Thread) \in Nat
    BY SumType, ThreadAssumption DEF TypeOK
  <2>3. total_words' \in Nat
    BY <1>3, <2>2 DEF EndRegion, Reduction, SumOver, TypeOK
  <2>4. UM' \in [Word -> Nat] /\ tw' \in [Thread -> Nat] /\ maps' \in Seq([Word -> Nat])
    <3>1. UM' \in [Word -> Nat] /\ tw' \in [Thread -> Nat]
      BY <1>3 DEF EndRegion, Zero
    <3>2. maps' = Append(maps, UM)
      BY <1>3 DEF EndRegion
    <3>3. \A R : \A q \in Seq(R), e \in R : Append(q, e) \in Seq(R)
      OBVIOUS
    <3>. QED
      BY <3>1, <3>2, <3>3 DEF TypeOK
  <2>5. pending' \subseteq created'
    BY <1>3 DEF EndRegion
  <2>. QED
    BY <1>3, <2>1, <2>3, <2>4, <2>5 DEF EndRegion, TypeOK, Unit
<1>4. CASE Finished
  BY <1>4 DEF Finished, vars, criticalVars, ompVars, TypeOK, Unit
<1>. QED
  BY <1>1, <1>2, <1>3, <1>4 DEF Next

(* Every action keeps the critical section exclusive.                       *)
LEMMA MutexStep ==
  ASSUME TypeOK, MutexInv, Next
  PROVE  MutexInv'
<1>0. pc \in [Thread -> {"idle", "enter", "read", "write"}] /\ NoThread \notin Thread
  BY ThreadAssumption DEF TypeOK
<1>1. CASE CreateTask
  BY <1>1 DEF CreateTask, criticalVars, MutexInv
<1>2. ASSUME NEW t \in Thread, ThreadStep(t)
      PROVE  MutexInv'
  <2>1. CASE CountUnit(t) \/ CountToken(t)
    BY <1>0, <2>1 DEF CountUnit, CountToken, Merge, MutexInv
  <2>2. CASE ReadFile(t)
    BY <2>2 DEF ReadFile, criticalVars, MutexInv
  <2>3. CASE EnterCritical(t)
    BY <1>0, <2>3 DEF EnterCritical, Enter, MayEnter, MutexInv
  <2>4. CASE ReadCounter(t)
    BY <1>0, <2>4 DEF ReadCounter, MutexInv
  <2>5. CASE WriteCounter(t)
    BY <1>0, <2>5 DEF WriteCounter, MutexInv
  <2>6. CASE Leave(t)
    BY <1>0, <2>6 DEF Leave, MutexInv
  <2>. QED
    BY <1>2, <2>1, <2>2, <2>3, <2>4, <2>5, <2>6 DEF ThreadStep, InCritical
<1>3. CASE EndRegion
  BY <1>3 DEF EndRegion, MutexInv
<1>4. CASE Finished
  BY <1>4 DEF Finished, vars, criticalVars, MutexInv
<1>. QED
  BY <1>1, <1>2, <1>3, <1>4 DEF Next

(* Every action keeps what a thread has read of a counter true: only the    *)
(* thread inside the critical section writes.                               *)
LEMMA ValueStep ==
  ASSUME TypeOK, MutexInv, ValueInv, Next
  PROVE  ValueInv'
<1>0. /\ pc \in [Thread -> {"idle", "enter", "read", "write"}]
      /\ delta \in [Thread -> [Word -> Nat]] /\ reg \in [Thread -> Nat]
      /\ UM \in [Word -> Nat] /\ DOMAIN word = Thread
  BY DEF TypeOK
<1>1. CASE CreateTask
  BY <1>1 DEF CreateTask, criticalVars, ValueInv
<1>2. ASSUME NEW t \in Thread, ThreadStep(t)
      PROVE  ValueInv'
  <2>1. ASSUME NEW counts, Merge(t, counts)
        PROVE  ValueInv'
    BY <1>0, <2>1 DEF Merge, ValueInv
  <2>2. CASE CountUnit(t) \/ CountToken(t)
    BY <2>1, <2>2 DEF CountUnit, CountToken
  <2>3. CASE ReadFile(t)
    BY <2>3 DEF ReadFile, criticalVars, ValueInv
  <2>4. CASE EnterCritical(t)
    BY <1>0, <2>4 DEF EnterCritical, Enter, ValueInv
  <2>5. CASE ReadCounter(t)
    <3>1. PICK w \in Word : word' = [word EXCEPT ![t] = w] /\ reg' = [reg EXCEPT ![t] = UM[w]]
      BY <2>5 DEF ReadCounter
    <3>2. /\ pc' = [pc EXCEPT ![t] = "write"] /\ UNCHANGED <<UM, delta>>
      BY <2>5 DEF ReadCounter
    <3>. QED
      BY <1>0, <3>1, <3>2 DEF ValueInv
  <2>6. CASE WriteCounter(t)
    <3>1. /\ pc[t] = "write" /\ pc' = [pc EXCEPT ![t] = "read"]
          /\ \A s \in Thread : s # t => delta'[s] = delta[s]
          /\ UNCHANGED <<word, reg>>
      BY <1>0, <2>6 DEF WriteCounter
    <3>2. \A s \in Thread : s # t => pc[s] # "write"
      BY <3>1 DEF MutexInv
    <3>. QED
      BY <1>0, <3>1, <3>2 DEF ValueInv
  <2>7. CASE Leave(t)
    BY <1>0, <2>7 DEF Leave, ValueInv
  <2>. QED
    BY <1>2, <2>2, <2>3, <2>4, <2>5, <2>6, <2>7 DEF ThreadStep, InCritical
<1>3. CASE EndRegion
  BY <1>3 DEF EndRegion, ValueInv
<1>4. CASE Finished
  BY <1>4 DEF Finished, vars, criticalVars, ValueInv
<1>. QED
  BY <1>1, <1>2, <1>3, <1>4 DEF Next

(* Nothing starts behind the last barrier.                                  *)
LEMMA EndStep ==
  ASSUME TypeOK, EndInv, Next
  PROVE  EndInv'
<1>. SUFFICES ASSUME pass' > Passes'
              PROVE  \A t \in Thread : pc'[t] = "idle" /\ rest'[t] = {}
  BY DEF EndInv
<1>0. Passes \in {1, 3} /\ pass \in Nat
  BY PassesType
<1>1. CASE CreateTask
  BY <1>1 DEF CreateTask, Passes, criticalVars, EndInv
<1>2. ASSUME NEW t \in Thread, ThreadStep(t)
      PROVE  FALSE
  <2>1. pass > Passes
    BY <1>2 DEF ThreadStep, CountUnit, ReadFile, CountToken, EnterCritical, InCritical,
                ompVars, Passes
  <2>2. pc[t] = "idle" /\ rest[t] = {}
    BY <2>1 DEF EndInv
  <2>. QED
    BY <1>0, <1>2, <2>1, <2>2 DEF ThreadStep, CountUnit, ReadFile, CountToken, EnterCritical,
       InCritical, Enter, ReadCounter, WriteCounter, Leave
<1>3. CASE EndRegion
  BY <1>3 DEF EndRegion
<1>4. CASE Finished
  BY <1>4 DEF Finished, vars, criticalVars, ompVars, EndInv, Passes
<1>. QED
  BY <1>1, <1>2, <1>3, <1>4 DEF Next

(* A thread that moves counts between the shared map, what it holds and     *)
(* what is unread leaves the sum alone.                                     *)
LEMMA CountsMoved ==
  ASSUME HeldNumbers, HeldNumbers', NEW w \in Word, NEW t \in Thread,
         UM[w] \in Nat, UM'[w] \in Nat,
         \A s \in Thread \ {t} : Held(w)'[s] = Held(w)[s],
         UM'[w] + Held(w)'[t] + tokenize_line(Unread')[w]
           = UM[w] + Held(w)[t] + tokenize_line(Unread)[w]
  PROVE  UM'[w] + SumOver(Held(w)', Thread) + tokenize_line(Unread')[w]
           = UM[w] + SumOver(Held(w), Thread) + tokenize_line(Unread)[w]
<1>1. /\ \A s \in Thread : Held(w)[s] \in Nat /\ Held(w)'[s] \in Nat
      /\ tokenize_line(Unread)[w] \in Nat /\ tokenize_line(Unread')[w] \in Nat
      /\ SumOver(Held(w), Thread) \in Nat
  BY DEF HeldNumbers
<1>. DEFINE f == Held(w)
            g == Held(w)'
            r == tokenize_line(Unread)[w]
            q == tokenize_line(Unread')[w]
<1>2. SumOver(g, Thread) = SumOver(f, Thread) + (g[t] - f[t])
  <2>1. \A x \in Thread : f[x] \in Int /\ g[x] \in Int
    BY <1>1
  <2>2. \A x \in Thread \ {t} : f[x] = g[x]
    OBVIOUS
  <2>. HIDE DEF f, g
  <2>. QED
    BY <2>1, <2>2, SumChange, ThreadAssumption
<1>3. SumOver(Held(w)', Thread) = SumOver(g, Thread)
  BY DEF SumOver
<1>4. /\ f[t] \in Nat /\ g[t] \in Nat /\ r \in Nat /\ q \in Nat /\ SumOver(f, Thread) \in Nat
      /\ UM'[w] + g[t] + q = UM[w] + f[t] + r
  BY <1>1
<1>5. \A a, b, c, d, e, i, j \in Nat :
        b + e + j = a + d + i => b + (c + (e - d)) + j = a + c + i
  OBVIOUS
<1>. HIDE DEF f, g, r, q
<1>6. UM'[w] + SumOver(g, Thread) + q = UM[w] + SumOver(f, Thread) + r
  BY <1>2, <1>4, <1>5
<1>. QED
  BY <1>3, <1>6 DEF f, g, r, q

(* The same of the numbers of words.                                        *)
LEMMA WordsMoved ==
  ASSUME HeldNumbers, HeldNumbers', NEW t \in Thread,
         total_words \in Nat, total_words' \in Nat,
         \A s \in Thread \ {t} : Words'[s] = Words[s],
         total_words' + Words'[t] + Cardinality(Unread')
           = total_words + Words[t] + Cardinality(Unread)
  PROVE  total_words' + SumOver(Words', Thread) + Cardinality(Unread')
           = total_words + SumOver(Words, Thread) + Cardinality(Unread)
<1>1. /\ \A s \in Thread : Words[s] \in Nat /\ Words'[s] \in Nat
      /\ Cardinality(Unread) \in Nat /\ Cardinality(Unread') \in Nat
      /\ SumOver(Words, Thread) \in Nat
  BY DEF HeldNumbers
<1>. DEFINE f == Words
            g == Words'
            r == Cardinality(Unread)
            q == Cardinality(Unread')
<1>2. SumOver(g, Thread) = SumOver(f, Thread) + (g[t] - f[t])
  <2>1. \A x \in Thread : f[x] \in Int /\ g[x] \in Int
    BY <1>1
  <2>2. \A x \in Thread \ {t} : f[x] = g[x]
    OBVIOUS
  <2>. HIDE DEF f, g
  <2>. QED
    BY <2>1, <2>2, SumChange, ThreadAssumption
<1>3. SumOver(Words', Thread) = SumOver(g, Thread)
  BY DEF SumOver
<1>4. /\ f[t] \in Nat /\ g[t] \in Nat /\ r \in Nat /\ q \in Nat /\ SumOver(f, Thread) \in Nat
      /\ total_words' + g[t] + q = total_words + f[t] + r
  BY <1>1
<1>5. \A a, b, c, d, e, i, j \in Nat :
        b + e + j = a + d + i => b + (c + (e - d)) + j = a + c + i
  OBVIOUS
<1>. HIDE DEF f, g, r, q
<1>6. total_words' + SumOver(g, Thread) + q = total_words + SumOver(f, Thread) + r
  BY <1>2, <1>4, <1>5
<1>. QED
  BY <1>3, <1>6 DEF f, g, r, q

(* A unit is taken: its tokens are no longer unread.                        *)
LEMMA UnitTaken ==
  ASSUME TypeOK, NEW u \in pending, pending' = pending \ {u}, UNCHANGED <<program, created>>
  PROVE  /\ \A w \in Word : tokenize_line(Unread)[w]
                               = tokenize_line(TokensOf({u}))[w] + tokenize_line(Unread')[w]
         /\ Cardinality(Unread) = Cardinality(TokensOf({u})) + Cardinality(Unread')
         /\ TokensOf({u}) \in SUBSET Position /\ Unread' \in SUBSET Position
<1>. DEFINE V == pending \cup (Unit \ created)
<1>1. u \in V /\ V \ {u} = pending' \cup (Unit' \ created')
  BY DEF TypeOK, Unit
<1>2. Unread = Tokens(program, V) /\ Unread' = Tokens(program, V \ {u})
  BY <1>1 DEF Unread, TokensOf
<1>3. TokensOf({u}) = Tokens(program, {u})
  BY DEF TokensOf
<1>. HIDE DEF V
<1>4. /\ Unread = TokensOf({u}) \cup Unread'
      /\ TokensOf({u}) \cap Unread' = {}
      /\ TokensOf({u}) \in SUBSET Position /\ Unread' \in SUBSET Position
  <2>1. /\ Tokens(program, V) = Tokens(program, {u}) \cup Tokens(program, V \ {u})
        /\ Tokens(program, {u}) \cap Tokens(program, V \ {u}) = {}
        /\ Tokens(program, {u}) \in SUBSET Position
        /\ Tokens(program, V \ {u}) \in SUBSET Position
    BY <1>1 DEF Tokens
  <2>. QED
    BY <1>2, <1>3, <2>1, Zenon
<1>. QED
  BY <1>4, CountUnion

(* Every step of a thread moves counts, and loses none.                     *)
LEMMA ThreadLosesNothing ==
  ASSUME TypeOK, TypeOK', MutexInv, ValueInv, NEW t \in Thread, ThreadStep(t), NEW w \in Word
  PROVE  UM'[w] + SumOver(Held(w)', Thread) + tokenize_line(Unread')[w]
           = UM[w] + SumOver(Held(w), Thread) + tokenize_line(Unread)[w]
<1>1. HeldNumbers /\ HeldNumbers'
  BY HeldType, PTL
<1>2. UM[w] \in Nat /\ UM'[w] \in Nat
  BY DEF TypeOK
<1>. DEFINE Moves == /\ \A s \in Thread \ {t} : Held(w)'[s] = Held(w)[s]
                     /\ UM'[w] + Held(w)'[t] + tokenize_line(Unread')[w]
                          = UM[w] + Held(w)[t] + tokenize_line(Unread)[w]
<1>3. SUFFICES Moves
  BY <1>1, <1>2, CountsMoved
<1>4. /\ delta \in [Thread -> [Word -> Nat]] /\ rest \in [Thread -> SUBSET Position]
      /\ UM \in [Word -> Nat] /\ reg \in [Thread -> Nat]
  BY DEF TypeOK
<1>5. /\ \A s \in Thread : Held(w)[s] = delta[s][w] + tokenize_line(rest[s])[w]
      /\ \A s \in Thread : Held(w)'[s] = delta'[s][w] + tokenize_line(rest'[s])[w]
  BY DEF Held
<1>6. \A P \in SUBSET Position : tokenize_line(P)[w] \in Nat
  BY CountType
<1>7. tokenize_line(Unread)[w] \in Nat /\ tokenize_line(Unread')[w] \in Nat
  BY <1>1 DEF HeldNumbers
<1>8. UNCHANGED <<program, created, pending>> => Unread' = Unread
  BY DEF Unread, TokensOf, Unit
<1>9. Zero[w] = 0 /\ tokenize_line({})[w] = 0
  BY CountEmpty DEF Zero
<1>10. CASE CountUnit(t)
  <2>1. PICK u \in pending : /\ pending' = pending \ {u}
                             /\ Merge(t, tokenize_line(TokensOf({u})))
    BY <1>10 DEF CountUnit
  <2>. DEFINE counts == tokenize_line(TokensOf({u}))
  <2>2. /\ tokenize_line(Unread)[w] = counts[w] + tokenize_line(Unread')[w]
        /\ counts[w] \in Nat
    BY <1>6, <1>10, <2>1, UnitTaken DEF CountUnit
  <2>3. delta[t] = Zero /\ UNCHANGED <<UM, rest>>
    <3>1. pc[t] = "idle" /\ UNCHANGED rest
      BY <1>10 DEF CountUnit
    <3>2. UNCHANGED UM
      BY <2>1 DEF Merge
    <3>. QED
      BY <3>1, <3>2 DEF ValueInv
  <2>4. delta' = [delta EXCEPT ![t] = counts]
    BY <2>1 DEF Merge
  <2>. HIDE DEF counts
  <2>5. delta'[t] = counts /\ \A s \in Thread \ {t} : delta'[s] = delta[s]
    BY <1>4, <2>4
  <2>6. tokenize_line(rest[t])[w] \in Nat
    BY <1>4, <1>6
  <2>7. Held(w)[t] = tokenize_line(rest[t])[w] /\ Held(w)'[t] = counts[w] + tokenize_line(rest[t])[w]
    BY <1>5, <1>9, <2>3, <2>5, <2>6
  <2>8. \A s \in Thread \ {t} : Held(w)'[s] = Held(w)[s]
    BY <1>5, <2>3, <2>5
  <2>. QED
    BY <1>2, <1>7, <2>2, <2>3, <2>6, <2>7, <2>8
<1>11. CASE ReadFile(t)
  <2>1. PICK u \in pending : /\ pending' = pending \ {u}
                             /\ rest' = [rest EXCEPT ![t] = TokensOf({u})]
    BY <1>11 DEF ReadFile
  <2>. DEFINE some == TokensOf({u})
  <2>2. /\ tokenize_line(Unread)[w] = tokenize_line(some)[w] + tokenize_line(Unread')[w]
        /\ tokenize_line(some)[w] \in Nat
    BY <1>6, <1>11, <2>1, UnitTaken DEF ReadFile
  <2>3. rest[t] = {} /\ UNCHANGED <<UM, delta>>
    BY <1>11 DEF ReadFile, criticalVars
  <2>. HIDE DEF some
  <2>4. rest'[t] = some /\ \A s \in Thread \ {t} : rest'[s] = rest[s]
    BY <1>4, <2>1 DEF some
  <2>5. delta[t][w] \in Nat
    BY <1>4
  <2>6. Held(w)[t] = delta[t][w] /\ Held(w)'[t] = delta[t][w] + tokenize_line(some)[w]
    <3>1. tokenize_line(rest[t])[w] = 0
      BY <1>9, <2>3
    <3>2. Held(w)[t] = delta[t][w]
      BY <1>5, <2>5, <3>1
    <3>. QED
      BY <1>5, <2>3, <2>4, <3>2
  <2>7. \A s \in Thread \ {t} : Held(w)'[s] = Held(w)[s]
    BY <1>5, <2>3, <2>4
  <2>. QED
    BY <1>2, <1>7, <2>2, <2>3, <2>5, <2>6, <2>7
<1>12. CASE CountToken(t)
  <2>1. PICK p \in rest[t] : /\ Merge(t, tokenize_line({p}))
                             /\ rest' = [rest EXCEPT ![t] = @ \ {p}]
    BY <1>12 DEF CountToken
  <2>. DEFINE one == tokenize_line({p})
              others == rest[t] \ {p}
  <2>2. /\ tokenize_line(rest[t])[w] = one[w] + tokenize_line(others)[w]
        /\ one[w] \in Nat /\ tokenize_line(others)[w] \in Nat
    <3>1. /\ {p} \in SUBSET Position /\ others \in SUBSET Position
          /\ {p} \cap others = {} /\ {p} \cup others = rest[t]
      BY <1>4
    <3>2. tokenize_line({p} \cup others)[w] = one[w] + tokenize_line(others)[w]
      BY <3>1, CountUnion
    <3>. QED
      BY <1>6, <3>1, <3>2
  <2>3. delta[t] = Zero /\ UNCHANGED <<UM, program, created, pending>>
    <3>1. pc[t] = "idle" /\ UNCHANGED <<program, created, pending>>
      BY <1>12 DEF CountToken
    <3>2. UNCHANGED UM
      BY <2>1 DEF Merge
    <3>. QED
      BY <3>1, <3>2 DEF ValueInv
  <2>4. delta' = [delta EXCEPT ![t] = one] /\ rest' = [rest EXCEPT ![t] = others]
    BY <1>4, <2>1 DEF Merge
  <2>. HIDE DEF one, others
  <2>5. /\ delta'[t] = one /\ rest'[t] = others
        /\ \A s \in Thread \ {t} : delta'[s] = delta[s] /\ rest'[s] = rest[s]
    BY <1>4, <2>4
  <2>6. Held(w)[t] = one[w] + tokenize_line(others)[w]
    BY <1>5, <1>9, <2>2, <2>3
  <2>7. Held(w)'[t] = one[w] + tokenize_line(others)[w]
    BY <1>5, <2>5
  <2>8. \A s \in Thread \ {t} : Held(w)'[s] = Held(w)[s]
    BY <1>5, <2>5
  <2>. QED
    BY <1>8, <2>3, <2>6, <2>7, <2>8
<1>13. CASE EnterCritical(t) \/ ((ReadCounter(t) \/ Leave(t)) /\ UNCHANGED ompVars)
  <2>1. UNCHANGED <<UM, delta, rest, program, created, pending>>
    BY <1>13 DEF EnterCritical, Enter, ReadCounter, Leave, ompVars
  <2>. QED
    BY <1>5, <1>8, <2>1
<1>14. CASE WriteCounter(t) /\ UNCHANGED ompVars
  <2>. DEFINE v == word[t]
              d == delta[t][v]
  <2>1. v \in Word /\ reg[t] = UM[v]
    <3>1. pc[t] = "write"
      BY <1>14 DEF WriteCounter
    <3>2. v \in Word
      BY <3>1 DEF TypeOK
    <3>. QED
      BY <3>1, <3>2 DEF ValueInv
  <2>2. /\ UM' = [UM EXCEPT ![v] = UM[v] + d] /\ delta' = [delta EXCEPT ![t][v] = 0]
        /\ UNCHANGED <<rest, program, created, pending>>
    BY <1>14, <2>1 DEF WriteCounter, ompVars
  <2>3. d \in Nat /\ UM[v] \in Nat
    BY <1>4, <2>1
  <2>4. /\ UM'[w] = (IF w = v THEN UM[v] + d ELSE UM[w])
        /\ delta'[t][w] = (IF w = v THEN 0 ELSE delta[t][w])
        /\ \A s \in Thread \ {t} : delta'[s] = delta[s]
    BY <1>4, <2>1, <2>2
  <2>5. \A s \in Thread \ {t} : Held(w)'[s] = Held(w)[s]
    BY <1>5, <2>2, <2>4
  <2>6. tokenize_line(rest[t])[w] \in Nat /\ delta[t][w] \in Nat
    BY <1>4, <1>6
  <2>7. UM'[w] + Held(w)'[t] = UM[w] + Held(w)[t]
    <3>1. Held(w)'[t] = delta'[t][w] + tokenize_line(rest[t])[w]
      BY <1>5, <2>2
    <3>2. Held(w)[t] = delta[t][w] + tokenize_line(rest[t])[w]
      BY <1>5
    <3>3. w = v => delta[t][w] = d /\ UM[w] = UM[v]
      OBVIOUS
    <3>. HIDE DEF d, v
    <3>. QED
      BY <1>2, <2>3, <2>4, <2>6, <3>1, <3>2, <3>3
  <2>. QED
    BY <1>8, <2>2, <2>5, <2>7
<1>. QED
  BY <1>10, <1>11, <1>12, <1>13, <1>14 DEF ThreadStep, InCritical

(* Every step of a thread moves words between what it holds, total_words    *)
(* and what is unread.                                                      *)
LEMMA ThreadCountsWords ==
  ASSUME TypeOK, TypeOK', NEW t \in Thread, ThreadStep(t)
  PROVE  total_words' + SumOver(Words', Thread) + Cardinality(Unread')
           = total_words + SumOver(Words, Thread) + Cardinality(Unread)
<1>1. HeldNumbers /\ HeldNumbers'
  BY HeldType, PTL
<1>2. total_words \in Nat /\ total_words' \in Nat
  BY DEF TypeOK
<1>. DEFINE Moves == /\ \A s \in Thread \ {t} : Words'[s] = Words[s]
                     /\ total_words' + Words'[t] + Cardinality(Unread')
                          = total_words + Words[t] + Cardinality(Unread)
<1>3. SUFFICES Moves
  BY <1>1, <1>2, WordsMoved
<1>4. /\ tw \in [Thread -> Nat] /\ rest \in [Thread -> SUBSET Position]
  BY DEF TypeOK
<1>5. /\ \A s \in Thread : Words[s] = tw[s] + Cardinality(rest[s])
      /\ \A s \in Thread : Words'[s] = tw'[s] + Cardinality(rest'[s])
  BY DEF Words
<1>6. \A P \in SUBSET Position : Cardinality(P) \in Nat
  BY CountType
<1>7. Cardinality(Unread) \in Nat /\ Cardinality(Unread') \in Nat
  BY <1>1 DEF HeldNumbers
<1>8. UNCHANGED <<program, created, pending>> => Unread' = Unread
  BY DEF Unread, TokensOf, Unit
<1>9. CASE CountUnit(t)
  <2>1. PICK u \in pending : /\ pending' = pending \ {u}
                             /\ tw' = [tw EXCEPT ![t] = @ + Cardinality(TokensOf({u}))]
    BY <1>9 DEF CountUnit
  <2>. DEFINE n == Cardinality(TokensOf({u}))
  <2>2. Cardinality(Unread) = n + Cardinality(Unread') /\ n \in Nat
    BY <1>6, <1>9, <2>1, UnitTaken DEF CountUnit
  <2>3. UNCHANGED <<total_words, rest>>
    BY <1>9 DEF CountUnit
  <2>4. tw' = [tw EXCEPT ![t] = tw[t] + n]
    BY <2>1
  <2>. HIDE DEF n
  <2>5. tw'[t] = tw[t] + n /\ (\A s \in Thread \ {t} : tw'[s] = tw[s]) /\ tw[t] \in Nat
    BY <1>4, <2>4
  <2>6. Cardinality(rest[t]) \in Nat
    BY <1>4, <1>6
  <2>7. /\ Words[t] = tw[t] + Cardinality(rest[t]) /\ Words'[t] = tw[t] + n + Cardinality(rest[t])
        /\ \A s \in Thread \ {t} : Words'[s] = Words[s]
    BY <1>5, <2>3, <2>5
  <2>. QED
    BY <1>2, <1>7, <2>2, <2>3, <2>5, <2>6, <2>7
<1>10. CASE ReadFile(t)
  <2>1. PICK u \in pending : /\ pending' = pending \ {u}
                             /\ rest' = [rest EXCEPT ![t] = TokensOf({u})]
    BY <1>10 DEF ReadFile
  <2>. DEFINE some == TokensOf({u})
  <2>2. Cardinality(Unread) = Cardinality(some) + Cardinality(Unread') /\ Cardinality(some) \in Nat
    BY <1>6, <1>10, <2>1, UnitTaken DEF ReadFile
  <2>3. rest[t] = {} /\ UNCHANGED <<total_words, tw>>
    BY <1>10 DEF ReadFile
  <2>. HIDE DEF some
  <2>4. rest'[t] = some /\ \A s \in Thread \ {t} : rest'[s] = rest[s]
    BY <1>4, <2>1 DEF some
  <2>5. tw[t] \in Nat /\ Cardinality(rest[t]) = 0
    BY <1>4, <2>3, CountEmpty
  <2>6. /\ Words[t] = tw[t] /\ Words'[t] = tw[t] + Cardinality(some)
        /\ \A s \in Thread \ {t} : Words'[s] = Words[s]
    BY <1>5, <2>3, <2>4, <2>5
  <2>. QED
    BY <1>2, <1>7, <2>2, <2>3, <2>5, <2>6
<1>11. CASE CountToken(t)
  <2>1. PICK p \in rest[t] : rest' = [rest EXCEPT ![t] = @ \ {p}]
    BY <1>11 DEF CountToken
  <2>. DEFINE others == rest[t] \ {p}
  <2>2. Cardinality(rest[t]) = Cardinality(others) + 1 /\ Cardinality(others) \in Nat
    <3>1. IsFiniteSet(rest[t]) /\ Cardinality(rest[t]) \in Nat
      BY <1>4, CountType
    <3>2. Cardinality(others) \in Nat
      BY <1>4, <1>6
    <3>3. Cardinality(others) = Cardinality(rest[t]) - 1
      <4>. DEFINE R == rest[t]
      <4>1. IsFiniteSet(R) /\ p \in R
        BY <3>1
      <4>. HIDE DEF R
      <4>2. Cardinality(R \ {p}) = Cardinality(R) - 1
        BY <4>1, FS_RemoveElement
      <4>. QED
        BY <4>2 DEF R
    <3>. HIDE DEF others
    <3>. QED
      BY <3>1, <3>2, <3>3
  <2>3. UNCHANGED <<total_words, program, created, pending>> /\ tw' = [tw EXCEPT ![t] = @ + 1]
    BY <1>11 DEF CountToken, Merge
  <2>4. rest' = [rest EXCEPT ![t] = others]
    BY <1>4, <2>1
  <2>. HIDE DEF others
  <2>5. /\ tw'[t] = tw[t] + 1 /\ rest'[t] = others /\ tw[t] \in Nat
        /\ \A s \in Thread \ {t} : tw'[s] = tw[s] /\ rest'[s] = rest[s]
    BY <1>4, <2>3, <2>4
  <2>6. Words'[t] = Words[t] /\ \A s \in Thread \ {t} : Words'[s] = Words[s]
    BY <1>5, <2>2, <2>5
  <2>. QED
    BY <1>8, <2>3, <2>6
<1>12. CASE EnterCritical(t)
  <2>1. UNCHANGED <<rest, program, created, pending>>
    BY <1>12 DEF EnterCritical, Enter
  <2>2. CASE program = "for"
    BY <1>5, <1>8, <1>12, <2>1, <2>2 DEF EnterCritical
  <2>3. CASE program # "for"
    <3>1. total_words' = total_words + tw[t] /\ tw' = [tw EXCEPT ![t] = 0]
      BY <1>12, <2>3 DEF EnterCritical
    <3>2. tw'[t] = 0 /\ tw[t] \in Nat /\ \A s \in Thread \ {t} : tw'[s] = tw[s]
      BY <1>4, <3>1
    <3>3. Cardinality(rest[t]) \in Nat
      BY <1>4, <1>6
    <3>4. \A s \in Thread \ {t} : Words'[s] = Words[s]
      BY <1>5, <2>1, <3>2
    <3>5. Words[t] = tw[t] + Cardinality(rest[t]) /\ Words'[t] = 0 + Cardinality(rest[t])
      BY <1>5, <2>1, <3>2
    <3>6. \A a, b, c, d \in Nat : (a + b) + (0 + c) + d = a + (b + c) + d
      OBVIOUS
    <3>7. (total_words + tw[t]) + (0 + Cardinality(rest[t])) + Cardinality(Unread)
            = total_words + (tw[t] + Cardinality(rest[t])) + Cardinality(Unread)
      BY <1>2, <1>7, <3>2, <3>3, <3>6
    <3>. QED
      BY <1>8, <2>1, <3>1, <3>4, <3>5, <3>7
  <2>. QED
    BY <2>2, <2>3
<1>13. CASE UNCHANGED ompVars
  BY <1>5, <1>8, <1>13 DEF ompVars
<1>. QED
  BY <1>9, <1>10, <1>11, <1>12, <1>13 DEF ThreadStep, InCritical

(* What a barrier finds: all the tokens in the map and in the totals.       *)
LEMMA AtBarrier ==
  ASSUME OmpInv, pass <= Passes, created = Unit, pending = {},
         \A t \in Thread : pc[t] = "idle" /\ rest[t] = {}
  PROVE  /\ UM = SequentialUM
         /\ total_words + SumOver(tw, Thread) = pass * SequentialTotal
<1>1. Unread = {}
  BY DEF Unread, TokensOf, Tokens
<1>2. \A w \in Word : tokenize_line({})[w] = 0 /\ Zero[w] = 0
  BY CountEmpty DEF Zero
<1>3. UM \in [Word -> Nat] /\ total_words \in Nat /\ tw \in [Thread -> Nat]
  BY DEF OmpInv, TypeOK
<1>4. ASSUME NEW w \in Word
      PROVE  UM[w] = SequentialUM[w]
  <2>1. \A t \in Thread : delta[t] = Zero /\ tokenize_line(rest[t])[w] = 0
    BY <1>2 DEF OmpInv, ValueInv
  <2>2. \A t \in Thread : Held(w)[t] = 0
    BY <1>2, <2>1 DEF Held
  <2>3. SumOver(Held(w), Thread) = 0
    BY <2>2, SumZero, ThreadAssumption
  <2>4. UM[w] + SumOver(Held(w), Thread) + tokenize_line(Unread)[w] = SequentialUM[w]
    BY NothingLostSum DEF OmpInv, CountsSum
  <2>. QED
    BY <1>1, <1>2, <1>3, <2>3, <2>4
<1>5. SequentialUM \in [Word -> Nat]
  BY CountType DEF SequentialUM
<1>6. UM = SequentialUM
  BY <1>3, <1>4, <1>5
<1>7. SumOver(Words, Thread) = SumOver(tw, Thread)
  <2>1. \A t \in Thread : Words[t] = tw[t]
    BY <1>3, CountEmpty DEF Words
  <2>. QED
    BY <2>1, SumEqual, ThreadAssumption
<1>8. SumOver(tw, Thread) \in Nat
  BY <1>3, SumType, ThreadAssumption
<1>9. total_words + SumOver(Words, Thread) + Cardinality(Unread) = pass * SequentialTotal
  BY DEF OmpInv, WordsInv
<1>10. Cardinality(Unread) = 0
  BY <1>1, CountEmpty
<1>11. total_words + SumOver(tw, Thread) + 0 = pass * SequentialTotal
  BY <1>7, <1>9, <1>10
<1>12. \A a, b \in Nat : a + b + 0 = a + b
  OBVIOUS
<1>. QED
  BY <1>3, <1>6, <1>8, <1>11, <1>12

(* A pass begins with the whole text unread and nothing counted.            *)
Fresh ==
  /\ pending \cup (Unit \ created) = Unit /\ UM = Zero
  /\ \A t \in Thread : delta[t] = Zero /\ rest[t] = {} /\ tw[t] = 0

FreshSums ==
  /\ \A w \in Word :
       UM[w] + SumOver(Held(w), Thread) + tokenize_line(Unread)[w] = SequentialUM[w]
  /\ SumOver(Words, Thread) = 0 /\ Cardinality(Unread) = SequentialTotal

(* Then the sums are those of the text.                                     *)
LEMMA AtStart == Fresh => FreshSums
<1>. SUFFICES ASSUME Fresh PROVE FreshSums
  OBVIOUS
<1>1. Unread = Position
  BY TokensOfAll DEF Unread, TokensOf, Unit, Fresh
<1>2. ASSUME NEW w \in Word
      PROVE  UM[w] + SumOver(Held(w), Thread) + tokenize_line(Unread)[w] = SequentialUM[w]
  <2>1. tokenize_line({})[w] = 0 /\ Zero[w] = 0
    BY CountEmpty DEF Zero
  <2>2. \A t \in Thread : Held(w)[t] = 0
    <3>1. \A t \in Thread : delta[t] = Zero /\ rest[t] = {}
      BY DEF Fresh
    <3>. QED
      BY <2>1, <3>1 DEF Held
  <2>3. SumOver(Held(w), Thread) = 0
    BY <2>2, SumZero, ThreadAssumption
  <2>4. tokenize_line(Position)[w] \in Nat
    BY CountType
  <2>. QED
    BY <1>1, <2>1, <2>3, <2>4 DEF SequentialUM, Fresh
<1>3. \A t \in Thread : Words[t] = 0
  BY CountEmpty DEF Words, Fresh
<1>. QED
  BY <1>1, <1>2, <1>3, SumZero, ThreadAssumption DEF SequentialTotal, FreshSums

(* The OpenMP programs keep the invariant.                                  *)
LEMMA OmpStep ==
  ASSUME OmpInv, Next
  PROVE  OmpInv'
<1>1. TypeOK' /\ MutexInv' /\ ValueInv' /\ EndInv'
  BY OmpTypeStep, MutexStep, ValueStep, EndStep DEF OmpInv
<1>2. NothingLost /\ (NothingLost' <=> CountsSum')
  BY NothingLostSum, PTL DEF OmpInv
<1>3. CountsSum
  BY <1>2, NothingLostSum
<1>4. TypeOK /\ NothingLost /\ WordsInv /\ RegionsExact
  BY DEF OmpInv
<1>5. CASE CreateTask
  <2>1. PICK u \in Unit \ created :
          created' = created \cup {u} /\ pending' = pending \cup {u}
    BY <1>5 DEF CreateTask, First
  <2>2. UNCHANGED <<UM, delta, program, pass, rest, tw, total_words, maps>>
    BY <1>5 DEF CreateTask, criticalVars
  <2>3. pending' \cup (Unit' \ created') = pending \cup (Unit \ created)
    BY <1>4, <2>1, <2>2 DEF Unit, TypeOK
  <2>4. Unread' = Unread
    BY <2>2, <2>3 DEF Unread, TokensOf
  <2>5. Words' = Words /\ Passes' = Passes /\ \A w : Held(w)' = Held(w)
    BY <2>2 DEF Words, Held, Passes
  <2>. QED
    <3>1. CountsSum' /\ WordsInv' /\ RegionsExact'
      BY <1>3, <1>4, <2>2, <2>4, <2>5 DEF CountsSum, WordsInv, RegionsExact
    <3>. QED
      BY <1>1, <1>2, <3>1 DEF OmpInv
<1>6. ASSUME NEW t \in Thread, ThreadStep(t)
      PROVE  OmpInv'
  <2>1. UNCHANGED <<program, pass, maps>>
    BY <1>6 DEF ThreadStep, CountUnit, ReadFile, CountToken, EnterCritical, InCritical, ompVars
  <2>2. Passes' = Passes
    BY <2>1 DEF Passes
  <2>3. NothingLost'
    <3>1. MutexInv /\ ValueInv
      BY DEF OmpInv
    <3>2. CountsSum'
      BY <1>1, <1>3, <1>4, <1>6, <2>1, <2>2, <3>1, ThreadLosesNothing DEF CountsSum
    <3>. QED
      BY <1>2, <3>2
  <2>4. WordsInv'
    BY <1>1, <1>4, <1>6, <2>1, <2>2, ThreadCountsWords DEF WordsInv
  <2>5. pass <= Passes
    <3>1. pass > Passes => pc[t] = "idle" /\ rest[t] = {}
      BY DEF OmpInv, EndInv
    <3>2. Passes \in {1, 3} /\ pass \in Nat
      BY <1>4, PassesType
    <3>3. pass > Passes => FALSE
      <4>. SUFFICES ASSUME pass > Passes PROVE FALSE
        OBVIOUS
      <4>1. ~ CountUnit(t) /\ ~ ReadFile(t)
        BY <3>2 DEF CountUnit, ReadFile
      <4>2. ~ CountToken(t) /\ ~ EnterCritical(t)
        BY <3>1 DEF CountToken, EnterCritical, Enter
      <4>3. ~ InCritical(t)
        BY <3>1 DEF InCritical, ReadCounter, WriteCounter, Leave
      <4>. QED
        BY <1>6, <4>1, <4>2, <4>3 DEF ThreadStep
    <3>. QED
      BY <3>2, <3>3
  <2>6. RegionsExact'
    <3>1. ~ pass' > Passes'
      BY <1>4, <2>1, <2>2, <2>5, PassesType
    <3>. QED
      BY <1>4, <2>1, <3>1 DEF RegionsExact
  <2>. QED
    BY <1>1, <2>3, <2>4, <2>6 DEF OmpInv
<1>7. CASE EndRegion
  <2>1. /\ pass <= Passes /\ created = Unit /\ pending = {}
        /\ \A t \in Thread : pc[t] = "idle" /\ rest[t] = {}
    BY <1>7 DEF EndRegion
  <2>2. UM = SequentialUM /\ total_words + SumOver(tw, Thread) = pass * SequentialTotal
    BY <2>1, AtBarrier
  <2>3. total_words' = pass * SequentialTotal
    BY <1>7, <2>2 DEF EndRegion, Reduction, SumOver
  <2>4. /\ UM' = Zero /\ maps' = Append(maps, UM) /\ pass' = pass + 1
        /\ UNCHANGED <<delta, program, created, rest>>
        /\ \A t \in Thread : tw'[t] = 0
        /\ pending' = IF pass' <= Passes THEN created ELSE {}
    BY <1>7 DEF EndRegion
  <2>5. Passes' = Passes /\ Unit' = Unit
    BY <2>4 DEF Passes, Unit
  <2>6. pass \in Nat \ {0} /\ Passes \in {1, 3} /\ SequentialTotal \in Nat
    BY <1>4, PassesType, CountType DEF SequentialTotal
  <2>9. \A k \in DOMAIN maps' : maps'[k] = SequentialUM
    <3>. DEFINE R == [Word -> Nat]
    <3>1. maps \in Seq(R) /\ UM \in R /\ maps' = Append(maps, UM)
      BY <1>4, <2>4 DEF TypeOK
    <3>. HIDE DEF R
    <3>2. \A k \in DOMAIN maps' : (k \in DOMAIN maps /\ maps'[k] = maps[k]) \/ maps'[k] = UM
      BY <3>1
    <3>. QED
      BY <1>4, <2>2, <3>2 DEF RegionsExact
  <2>7. CASE pass' <= Passes
    <3>1. Fresh'
      <4>1. pending' \cup (Unit' \ created') = Unit'
        BY <2>1, <2>4, <2>5, <2>7
      <4>2. \A t \in Thread : delta'[t] = Zero /\ rest'[t] = {} /\ tw'[t] = 0
        BY <2>1, <2>4 DEF OmpInv, ValueInv
      <4>. QED
        BY <2>4, <4>1, <4>2 DEF Fresh
    <3>2. FreshSums'
      BY <3>1, AtStart, PTL
    <3>3. NothingLost'
      <4>1. CountsSum'
        BY <3>2 DEF FreshSums, CountsSum
      <4>. QED
        BY <1>2, <4>1
    <3>4. WordsInv'
      <4>1. SumOver(Words', Thread) = 0 /\ Cardinality(Unread') = SequentialTotal
        BY <3>2 DEF FreshSums
      <4>2. \A n, s \in Nat : n * s + 0 + s = (n + 1) * s
        OBVIOUS
      <4>3. pass * SequentialTotal + 0 + SequentialTotal = (pass + 1) * SequentialTotal
        BY <2>6, <4>2
      <4>. QED
        BY <2>3, <2>4, <4>1, <4>3 DEF WordsInv
    <3>5. ~ pass' > Passes'
      BY <2>4, <2>5, <2>6, <2>7
    <3>. QED
      BY <1>1, <2>9, <3>3, <3>4, <3>5 DEF OmpInv, RegionsExact
  <2>8. CASE ~ pass' <= Passes
    <3>1. pass = Passes
      BY <2>1, <2>4, <2>6, <2>8
    <3>2. NothingLost' /\ WordsInv'
      BY <1>2, <2>5, <2>8 DEF CountsSum, WordsInv
    <3>3. RegionsExact'
      BY <2>3, <2>5, <2>9, <3>1 DEF RegionsExact
    <3>. QED
      BY <1>1, <3>2, <3>3 DEF OmpInv
  <2>. QED
    BY <2>7, <2>8
<1>8. CASE Finished
  <2>1. UNCHANGED <<program, pass, created, pending, rest, tw, total_words, maps, UM, delta>>
    BY <1>8 DEF Finished, vars, criticalVars, ompVars
  <2>2. /\ Words' = Words /\ Passes' = Passes /\ Unread' = Unread
        /\ \A w : Held(w)' = Held(w)
    BY <2>1 DEF Words, Held, Passes, Unread, TokensOf, Unit
  <2>. QED
    <3>1. CountsSum' /\ WordsInv' /\ RegionsExact'
      BY <1>3, <1>4, <2>1, <2>2 DEF CountsSum, WordsInv, RegionsExact
    <3>. QED
      BY <1>1, <1>2, <3>1 DEF OmpInv
<1>. QED
  BY <1>5, <1>6, <1>7, <1>8 DEF Next

(* They start in it.                                                        *)
LEMMA OmpInit == Init => OmpInv
<1>. SUFFICES ASSUME Init PROVE OmpInv
  OBVIOUS
<1>1. TypeOK
  <2>1. Zero \in [Word -> Nat]
    BY DEF Zero
  <2>2. created \subseteq Unit /\ pending \subseteq created
    BY DEF Init
  <2>3. /\ UM \in [Word -> Nat] /\ delta \in [Thread -> [Word -> Nat]]
        /\ reg \in [Thread -> Nat] /\ DOMAIN word = Thread
        /\ pc = [t \in Thread |-> "idle"] /\ lock = NoThread
    BY <2>1 DEF Init, CriticalInit
  <2>4. /\ rest \in [Thread -> SUBSET Position] /\ tw \in [Thread -> Nat] /\ total_words \in Nat
        /\ maps \in Seq([Word -> Nat]) /\ program \in Program /\ pass \in 1 .. 4
    BY DEF Init
  <2>. QED
    BY <2>2, <2>3, <2>4 DEF TypeOK
<1>2. MutexInv /\ ValueInv
  BY ThreadAssumption DEF MutexInv, ValueInv, Init, CriticalInit
<1>3. Passes \in {1, 3} /\ pass = 1
  BY DEF Init, Passes
<1>4. Fresh
  BY DEF Fresh, Init, CriticalInit
<1>5. FreshSums
  BY <1>4, AtStart
<1>6. NothingLost
  BY <1>5, NothingLostSum DEF FreshSums, CountsSum
<1>7. WordsInv
  <2>1. SequentialTotal \in Nat /\ total_words = 0
    BY CountType DEF SequentialTotal, Init
  <2>2. \A n \in Nat : 0 + 0 + n = 1 * n
    OBVIOUS
  <2>. QED
    BY <1>3, <1>5, <2>1, <2>2 DEF WordsInv, FreshSums
<1>8. EndInv /\ RegionsExact
  BY <1>3 DEF EndInv, RegionsExact, Init
<1>. QED
  BY <1>1, <1>2, <1>6, <1>7, <1>8 DEF OmpInv

(* Nothing of the OpenMP programs changes.                                  *)
LEMMA OmpStutters ==
  ASSUME OmpInv, UNCHANGED vars
  PROVE  OmpInv'
<1>1. /\ UNCHANGED <<program, pass, created, pending, rest, tw, total_words, maps>>
      /\ UNCHANGED <<UM, lock, pc, delta, word, reg>>
  BY DEF vars, criticalVars, ompVars
<1>2. /\ Words' = Words /\ Passes' = Passes /\ Unit' = Unit /\ Unread' = Unread
      /\ \A w : Held(w)' = Held(w)
  BY <1>1 DEF Words, Held, Passes, Unread, TokensOf, Unit
<1>3. TypeOK' /\ MutexInv' /\ ValueInv' /\ EndInv'
  BY <1>1, <1>2 DEF OmpInv, TypeOK, MutexInv, ValueInv, EndInv
<1>4. WordsInv' /\ RegionsExact'
  BY <1>1, <1>2 DEF OmpInv, WordsInv, RegionsExact
<1>5. CountsSum
  BY NothingLostSum DEF OmpInv
<1>6. CountsSum'
  BY <1>1, <1>2, <1>5 DEF CountsSum
<1>7. NothingLost'
  BY <1>6, NothingLostSum, PTL
<1>. QED
  BY <1>3, <1>4, <1>7 DEF OmpInv

-----------------------------------------------------------------------------
(* The farm.                                                                *)

(* What a worker sends back: a task with its counts, or the end.            *)
Item == {FF!Counted(u) : u \in FF!Task} \cup {FF!NoTask}

FarmType ==
  /\ grain \in {"line", "file"} /\ sent \subseteq FF!Task /\ closed \in BOOLEAN
  /\ queue \in [FF!Worker -> Seq(FF!Task \cup {FF!EOS})]
  /\ back \in [FF!Worker -> Seq(Item)]
  /\ local \in [FF!Worker -> Item]
  /\ worker \in [FF!Worker -> {"idle", "busy", "ended"}]
  /\ reduced \in [FF!Task -> {0, 1}]

(* Nothing is twice in a channel; a worker that is not busy holds no task.  *)
ChannelInv ==
  \A w \in FF!Worker :
    /\ IsInjective(queue[w]) /\ (FF!EOS \in Range(queue[w]) => closed)
    /\ IsInjective(back[w]) /\ (FF!NoTask \in Range(back[w]) => worker[w] = "ended")
    /\ worker[w] = "busy" <=> local[w] # FF!NoTask

(* Where a task can be: in a channel, with a worker, or in the result.      *)
Place == ({"queue", "local", "back"} \X FF!Worker) \cup {<<"done", 0>>}
At(x, u) ==
  \/ x[1] = "queue" /\ u \in Range(queue[x[2]])
  \/ x[1] = "local" /\ local[x[2]] = FF!Counted(u)
  \/ x[1] = "back" /\ FF!Counted(u) \in Range(back[x[2]])
  \/ x[1] = "done" /\ reduced[u] = 1

(* A task is in one place at most, and nowhere before it is sent.           *)
PlaceInv ==
  \A u \in FF!Task : \A x \in Place :
    At(x, u) => u \in sent /\ \A y \in Place : At(y, u) => x = y

(* The farm works on what the other programs work on.                       *)
LEMMA SameText ==
  /\ FF!Position = Position /\ FF!Zero = Zero
  /\ \A g : FF!Units(g) = Units(g)
  /\ \A g, U : FF!Tokens(g, U) = Tokens(g, U)
  /\ \A P : FF!tokenize_line(P) = tokenize_line(P) /\ FF!Cardinality(P) = Cardinality(P)
  /\ \A m, n : FF!Add(m, n) = Add(m, n)
<1>1. FF!Position = Position
  BY DEF FF!Position, Position
<1>2. \A S : FF!Cardinality(S) = Cardinality(S)
  BY DEF FF!Cardinality, Cardinality
<1>3. \A p : FF!WordAt(p) = WordAt(p)
  BY DEF FF!WordAt, WordAt
<1>4. \A P : FF!tokenize_line(P) = tokenize_line(P)
  BY <1>2, <1>3 DEF FF!tokenize_line, tokenize_line
<1>5. \A g, p : FF!UnitOf(g, p) = UnitOf(g, p)
  BY DEF FF!UnitOf, UnitOf
<1>. QED
  BY <1>1, <1>2, <1>4, <1>5 DEF FF!Units, Units, FF!Tokens, Tokens, FF!Zero, Zero, FF!Add, Add

(* The end is not a task.                                                   *)
LEMMA EndIsNoTask == FF!EOS \notin FF!Task
<1>1. \A p : UnitOf("line", p) # <<>>
  BY DEF UnitOf
<1>. QED
  BY <1>1, SameText DEF FF!EOS, FF!Task, Units

(* An item tells which task it is.                                          *)
LEMMA ItemId ==
  /\ FF!NoTask \in Item /\ FF!NoTask.id = FF!EOS
  /\ \A u : FF!Counted(u).id = u
  /\ \A u \in FF!Task : FF!Counted(u) \in Item /\ FF!Counted(u) # FF!NoTask
  /\ \A r \in Item : /\ r.id # FF!EOS => r.id \in FF!Task /\ r = FF!Counted(r.id)
                     /\ r.id = FF!EOS => r = FF!NoTask
<1>1. FF!NoTask.id = FF!EOS /\ \A u : FF!Counted(u).id = u
  BY DEF FF!NoTask, FF!Counted
<1>. QED
  BY <1>1, EndIsNoTask DEF Item

(* A step that moves u from one place to another, and moves nothing else.   *)
LEMMA TaskMoved ==
  ASSUME PlaceInv, NEW u \in FF!Task, NEW x, NEW y \in Place,
         UNCHANGED grain, sent \subseteq sent', u \in sent',
         \A v \in FF!Task \ {u} : \A z \in Place : At(z, v)' => At(z, v),
         \A z \in Place : At(z, u)' => z = y \/ (At(z, u) /\ z # x),
         u \in sent => x \in Place /\ At(x, u)
  PROVE  PlaceInv'
<1>1. FF!Task' = FF!Task /\ Place' = Place
  BY DEF FF!Task, Place
<1>2. ASSUME NEW z \in Place, At(z, u)'
      PROVE  z = y
  BY <1>2 DEF PlaceInv
<1>. QED
  BY <1>1, <1>2 DEF PlaceInv

(* No task is dropped, nothing follows EOS, a worker ends when all is dealt. *)
DrainInv ==
  /\ closed => sent = FF!Task
  /\ \A u \in sent : \E x \in Place : At(x, u)
  /\ \A w \in FF!Worker :
       /\ \A k \in DOMAIN queue[w] : queue[w][k] = FF!EOS => k = Len(queue[w])
       /\ worker[w] = "ended" => closed /\ queue[w] = <<>>
  /\ emitter = "ended" => \A u \in FF!Task : reduced[u] = 1

(* The map and the total hold what has come back.                           *)
ReducedSoFar == FF!ReducedSoFar

FarmInv == FarmType /\ ChannelInv /\ PlaceInv /\ ReducedSoFar /\ DrainInv

(* What is last in a queue stays last, and is all of it when it is first.   *)
LEMMA LastInQueue ==
  ASSUME NEW R, NEW q \in Seq(R), NEW e \in R
  PROVE  /\ e \notin Range(q) =>
              \A k \in DOMAIN Append(q, e) : Append(q, e)[k] = e => k = Len(Append(q, e))
         /\ q # <<>> /\ (\A k \in DOMAIN q : q[k] = e => k = Len(q)) =>
              /\ \A k \in DOMAIN Tail(q) : Tail(q)[k] = e => k = Len(Tail(q))
              /\ Head(q) = e => Tail(q) = <<>>
<1>1. ASSUME e \notin Range(q), NEW k \in DOMAIN Append(q, e), Append(q, e)[k] = e
      PROVE  k = Len(Append(q, e))
  <2>1. k \in 1 .. Len(q) => Append(q, e)[k] = q[k] /\ q[k] \in Range(q)
    BY DEF Range
  <2>. QED
    BY <1>1, <2>1
<1>2. ASSUME q # <<>>, \A k \in DOMAIN q : q[k] = e => k = Len(q)
      PROVE  /\ \A k \in DOMAIN Tail(q) : Tail(q)[k] = e => k = Len(Tail(q))
             /\ Head(q) = e => Tail(q) = <<>>
  <2>1. /\ Len(q) \in Nat \ {0} /\ Len(Tail(q)) = Len(q) - 1 /\ Head(q) = q[1]
        /\ DOMAIN q = 1 .. Len(q) /\ DOMAIN Tail(q) = 1 .. Len(q) - 1
        /\ \A k \in 1 .. Len(q) - 1 : Tail(q)[k] = q[k + 1]
    BY <1>2
  <2>2. Head(q) = e => Len(q) = 1
    BY <1>2, <2>1
  <2>3. Len(q) = 1 => Tail(q) = <<>>
    BY <2>1
  <2>. QED
    BY <1>2, <2>1, <2>2, <2>3
<1>. QED
  BY <1>1, <1>2

(* The actions that touch neither the text nor the result.                  *)
LEMMA ResultKept ==
  ASSUME ReducedSoFar, UNCHANGED <<grain, reduced, farmUM, farmTotal>>
  PROVE  ReducedSoFar'
BY DEF ReducedSoFar, FF!ReducedSoFar, FF!Task, FF!TokensOf

(* There are finitely many tasks, so the worker a task is dealt to exists.  *)
LEMMA DealtToWorker ==
  ASSUME FarmType
  PROVE  FF!Cardinality(sent) % nw \in FF!Worker
<1>1. IsFiniteSet(FF!Task)
  <2>1. IsFiniteSet(Units("line"))
    <3>. DEFINE g == [p \in Position |-> UnitOf("line", p)]
    <3>1. IsFiniteSet({g[p] : p \in Position})
      <4>. HIDE DEF g
      <4>. QED BY PositionFinite, ImageFinite
    <3>2. {g[p] : p \in Position} = Units("line")
      BY DEF Units
    <3>. QED
      BY <3>1, <3>2
  <2>2. IsFiniteSet(Units("file"))
    <3>. DEFINE g == [f \in DOMAIN Text |-> <<f>>]
    <3>1. DOMAIN Text = 1 .. Len(Text) /\ Len(Text) \in Nat
      BY TextAssumption
    <3>2. IsFiniteSet(DOMAIN Text)
      BY <3>1, FS_Interval
    <3>3. IsFiniteSet({g[f] : f \in DOMAIN Text})
      <4>. HIDE DEF g
      <4>. QED BY <3>2, ImageFinite
    <3>4. {g[f] : f \in DOMAIN Text} = Units("file")
      BY DEF Units
    <3>. QED
      BY <3>3, <3>4
  <2>. QED
    BY <2>1, <2>2, SameText DEF FF!Task, FarmType
<1>2. Cardinality(sent) \in Nat
  BY <1>1, FS_Subset, FS_CardinalityType DEF FarmType
<1>3. \A n \in Nat : n % nw \in 0 .. nw - 1
  BY WorkersAssumption
<1>. QED
  BY <1>2, <1>3, SameText DEF FF!Worker

(* The channels of the workers that the action does not touch.              *)
LEMMA SendStep ==
  ASSUME FarmInv, FF!SendTask
  PROVE  FarmInv'
<1>. DEFINE R == FF!Task \cup {FF!EOS}
<1>1. PICK c \in FF!Worker : c = FF!Cardinality(sent) % nw
  BY DealtToWorker DEF FarmInv
<1>2. PICK u \in FF!Task : /\ FF!First(u, FF!Task \ sent)
                          /\ queue' = [queue EXCEPT ![c] = Append(@, u)]
                          /\ sent' = sent \cup {u}
  BY <1>1 DEF FF!SendTask
<1>3. /\ UNCHANGED <<grain, closed, back, local, worker, reduced, farmUM, farmTotal>>
      /\ u \notin sent /\ u # FF!EOS
  BY <1>2, EndIsNoTask DEF FF!SendTask, FF!First
<1>4. queue \in [FF!Worker -> Seq(R)] /\ queue[c] \in Seq(R)
  BY <1>1 DEF FarmInv, FarmType
<1>5. \A x \in Place : ~ At(x, u)
  BY <1>3 DEF FarmInv, PlaceInv
<1>6. u \notin Range(queue[c])
  <2>1. <<"queue", c>> \in Place
    BY <1>1 DEF Place
  <2>. QED
    BY <1>5, <2>1 DEF At
<1>7. /\ Append(queue[c], u) \in Seq(R)
      /\ Range(Append(queue[c], u)) = Range(queue[c]) \cup {u}
      /\ IsInjective(queue[c]) => IsInjective(Append(queue[c], u))
  BY <1>4, <1>6, AppendRange
<1>8. \A w \in FF!Worker : queue'[w] = IF w = c THEN Append(queue[c], u) ELSE queue[w]
  BY <1>2, <1>4
<1>9. FF!Task' = FF!Task
  BY <1>3 DEF FF!Task
<1>10. queue' \in [FF!Worker -> Seq(R)]
  <2>. HIDE DEF R
  <2>. QED BY <1>2, <1>4, <1>7
<1>11. FarmType'
  <2>1. Item' = Item
    BY <1>3, <1>9 DEF Item, FF!Counted, FF!TokensOf
  <2>2. sent' \subseteq FF!Task
    BY <1>2 DEF FarmInv, FarmType
  <2>. QED
    BY <1>3, <1>9, <1>10, <2>1, <2>2 DEF FarmInv, FarmType
<1>12. ChannelInv'
  BY <1>3, <1>7, <1>8 DEF FarmInv, ChannelInv
<1>13. PlaceInv'
  <2>1. \A v \in FF!Task : \A z \in Place :
          At(z, v)' <=> At(z, v) \/ (v = u /\ z = <<"queue", c>>)
    <3>1. \A v : FF!Counted(v)' = FF!Counted(v)
      BY <1>3 DEF FF!Counted, FF!TokensOf
    <3>2. \A z \in Place : z[1] = "queue" => z[2] \in FF!Worker /\ z = <<"queue", z[2]>>
      BY DEF Place
    <3>. SUFFICES ASSUME NEW v \in FF!Task, NEW z \in Place
                  PROVE  At(z, v)' <=> At(z, v) \/ (v = u /\ z = <<"queue", c>>)
      OBVIOUS
    <3>3. CASE z[1] # "queue"
      BY <1>3, <3>1, <3>3 DEF At
    <3>4. CASE z[1] = "queue"
      <4>1. z[2] \in FF!Worker /\ z = <<"queue", z[2]>>
        BY <3>2, <3>4
      <4>2. v \in Range(queue'[z[2]]) <=> v \in Range(queue[z[2]]) \/ (v = u /\ z[2] = c)
        BY <1>7, <1>8, <4>1
      <4>3. At(z, v)' <=> v \in Range(queue'[z[2]])
        BY <3>4 DEF At
      <4>4. At(z, v) <=> v \in Range(queue[z[2]])
        BY <3>4 DEF At
      <4>5. z = <<"queue", c>> <=> z[2] = c
        BY <4>1
      <4>. QED
        BY <4>2, <4>3, <4>4, <4>5
    <3>. QED
      BY <3>3, <3>4
  <2>2. <<"queue", c>> \in Place
    BY <1>1 DEF Place
  <2>. QED
    BY <1>2, <1>3, <1>5, <2>1, <2>2, TaskMoved DEF FarmInv
<1>14. DrainInv'
  <2>1. ~ closed
    BY <1>3 DEF FarmInv, DrainInv
  <2>2. ASSUME NEW v \in sent'
        PROVE  \E z \in Place : At(z, v)'
    <3>1. CASE v = u
      <4>1. At(<<"queue", c>>, v)'
        BY <1>1, <1>7, <1>8, <3>1 DEF At
      <4>. QED
        BY <1>1, <4>1 DEF Place
    <3>2. CASE v # u
      <4>1. PICK z \in Place : At(z, v)
        BY <1>2, <2>2, <3>2 DEF FarmInv, DrainInv
      <4>2. \A x : FF!Counted(x)' = FF!Counted(x)
        BY <1>3 DEF FF!Counted, FF!TokensOf
      <4>3. z[1] = "queue" => z[2] \in FF!Worker
        BY DEF Place
      <4>4. At(z, v)'
        BY <1>3, <1>7, <1>8, <4>1, <4>2, <4>3 DEF At
      <4>. QED
        BY <4>4
    <3>. QED
      BY <3>1, <3>2
  <2>3. \A w \in FF!Worker : FF!EOS \notin Range(queue'[w]) /\ worker[w] # "ended"
    BY <1>3, <1>7, <1>8, <2>1 DEF FarmInv, ChannelInv, DrainInv
  <2>4. \A w \in FF!Worker : \A k \in DOMAIN queue'[w] : queue'[w][k] # FF!EOS
    BY <2>3 DEF Range
  <2>5. Place' = Place /\ UNCHANGED emitter
    BY DEF Place, FF!SendTask
  <2>. QED
    BY <1>3, <1>9, <2>1, <2>2, <2>3, <2>4, <2>5 DEF FarmInv, DrainInv
<1>. QED
  BY <1>3, <1>11, <1>12, <1>13, <1>14, ResultKept DEF FarmInv

(* EOS is not in the channels when it is broadcast.                         *)
LEMMA CloseStep ==
  ASSUME FarmInv, FF!Close
  PROVE  FarmInv'
<1>. DEFINE R == FF!Task \cup {FF!EOS}
<1>1. /\ ~closed /\ closed' = TRUE
      /\ queue' = [w \in FF!Worker |-> Append(queue[w], FF!EOS)]
      /\ UNCHANGED <<grain, sent, back, local, worker, reduced, farmUM, farmTotal>>
  BY DEF FF!Close
<1>2. ASSUME NEW w \in FF!Worker
      PROVE  /\ queue[w] \in Seq(R) /\ FF!EOS \notin Range(queue[w])
             /\ queue'[w] \in Seq(R)
             /\ Range(queue'[w]) = Range(queue[w]) \cup {FF!EOS}
             /\ IsInjective(queue'[w])
  <2>1. queue[w] \in Seq(R) /\ queue'[w] = Append(queue[w], FF!EOS)
    BY <1>1 DEF FarmInv, FarmType
  <2>2. FF!EOS \notin Range(queue[w]) /\ IsInjective(queue[w])
    BY <1>1 DEF FarmInv, ChannelInv
  <2>. HIDE DEF R
  <2>3. FF!EOS \in R
    BY DEF R
  <2>. QED
    BY <2>1, <2>2, <2>3, AppendRange
<1>3. FF!Task' = FF!Task /\ Item' = Item
  BY <1>1 DEF FF!Task, Item, FF!Counted, FF!TokensOf
<1>4. FarmType'
  <2>1. queue' \in [FF!Worker -> Seq(R)]
    <3>. HIDE DEF R
    <3>. QED BY <1>1, <1>2
  <2>. QED
    BY <1>1, <1>3, <2>1 DEF FarmInv, FarmType
<1>5. ChannelInv'
  BY <1>1, <1>2 DEF FarmInv, ChannelInv
<1>6. PlaceInv'
  <2>1. \A v \in FF!Task : \A z \in Place : At(z, v)' <=> At(z, v)
    <3>1. \A v : FF!Counted(v)' = FF!Counted(v)
      BY <1>1 DEF FF!Counted, FF!TokensOf
    <3>2. \A z \in Place : z[1] = "queue" => z[2] \in FF!Worker
      BY DEF Place
    <3>3. \A v \in FF!Task : \A x \in FF!Worker :
            v \in Range(queue'[x]) <=> v \in Range(queue[x])
      BY <1>2, EndIsNoTask
    <3>. QED
      BY <1>1, <3>1, <3>2, <3>3 DEF At
  <2>2. Place' = Place
    BY DEF Place
  <2>. QED
    BY <1>1, <1>3, <2>1, <2>2 DEF FarmInv, PlaceInv
<1>7. DrainInv'
  <2>1. sent = FF!Task /\ UNCHANGED emitter
    BY DEF FF!Close, FF!AllSent
  <2>2. ASSUME NEW w \in FF!Worker
        PROVE  /\ \A k \in DOMAIN queue'[w] : queue'[w][k] = FF!EOS => k = Len(queue'[w])
               /\ worker[w] # "ended"
    <3>1. FF!EOS \in R /\ queue[w] \in Seq(R) /\ queue'[w] = Append(queue[w], FF!EOS)
      BY <1>1 DEF FarmInv, FarmType
    <3>. HIDE DEF R
    <3>2. worker[w] # "ended"
      BY <1>1 DEF FarmInv, DrainInv
    <3>. QED
      BY <1>2, <3>1, <3>2, LastInQueue
  <2>3. \A v \in sent : \E z \in Place : At(z, v)'
    <3>1. \A v : FF!Counted(v)' = FF!Counted(v)
      BY <1>1 DEF FF!Counted, FF!TokensOf
    <3>2. \A z \in Place : z[1] = "queue" => z[2] \in FF!Worker
      BY DEF Place
    <3>3. \A v \in FF!Task : \A x \in FF!Worker :
            v \in Range(queue'[x]) <=> v \in Range(queue[x])
      BY <1>2, EndIsNoTask
    <3>4. \A v \in FF!Task : \A z \in Place : At(z, v) => At(z, v)'
      BY <1>1, <3>1, <3>2, <3>3 DEF At
    <3>. QED
      BY <2>1, <3>4 DEF FarmInv, DrainInv
  <2>4. Place' = Place
    BY DEF Place
  <2>. QED
    BY <1>1, <1>3, <2>1, <2>2, <2>3, <2>4 DEF FarmInv, DrainInv
<1>. QED
  BY <1>1, <1>4, <1>5, <1>6, <1>7, ResultKept DEF FarmInv

(* A task that comes back is added once.                                    *)
LEMMA ReduceStep ==
  ASSUME FarmInv, NEW w \in FF!Worker, FF!Reduce(w)
  PROVE  FarmInv'
<1>. DEFINE r == Head(back[w])
<1>1. /\ back[w] # <<>> /\ r.id # FF!EOS /\ FF!Reduction(r)
      /\ reduced' = [reduced EXCEPT ![r.id] = @ + 1]
      /\ back' = [back EXCEPT ![w] = Tail(@)]
      /\ UNCHANGED <<grain, sent, closed, queue, local, worker>>
  BY DEF FF!Reduce
<1>2. back \in [FF!Worker -> Seq(Item)] /\ back[w] \in Seq(Item)
  BY DEF FarmInv, FarmType
<1>3. /\ r \in Item /\ r \in Range(back[w]) /\ Tail(back[w]) \in Seq(Item)
      /\ Range(back[w]) = Range(Tail(back[w])) \cup {r}
      /\ IsInjective(Tail(back[w])) /\ r \notin Range(Tail(back[w]))
  <2>1. IsInjective(back[w])
    BY DEF FarmInv, ChannelInv
  <2>. QED
    BY <1>1, <1>2, <2>1, TailRange
<1>. HIDE DEF r
<1>4. PICK u \in FF!Task : u = r.id /\ r = FF!Counted(u)
  BY <1>1, <1>3, ItemId
<1>5. <<"back", w>> \in Place /\ <<"done", 0>> \in Place /\ <<"back", w>> # <<"done", 0>>
  BY DEF Place
<1>6. At(<<"back", w>>, u)
  BY <1>3, <1>4 DEF At
<1>7. u \in sent /\ reduced[u] = 0
  <2>1. reduced[u] \in {0, 1}
    BY <1>4 DEF FarmInv, FarmType
  <2>2. ~ At(<<"done", 0>>, u)
    BY <1>4, <1>5, <1>6 DEF FarmInv, PlaceInv
  <2>. QED
    BY <1>4, <1>5, <1>6, <2>1, <2>2 DEF FarmInv, PlaceInv, At
<1>8. /\ \A v \in FF!Worker : back'[v] = IF v = w THEN Tail(back[w]) ELSE back[v]
      /\ back' \in [FF!Worker -> Seq(Item)]
  BY <1>1, <1>2, <1>3
<1>9. /\ \A v \in FF!Task : reduced'[v] = IF v = u THEN 1 ELSE reduced[v]
      /\ reduced' \in [FF!Task -> {0, 1}]
  BY <1>1, <1>4, <1>7 DEF FarmInv, FarmType
<1>10. /\ FF!Task' = FF!Task /\ Item' = Item /\ \A v : FF!Counted(v)' = FF!Counted(v)
       /\ \A S : FF!TokensOf(S) = Tokens(grain, S) /\ FF!TokensOf(S)' = Tokens(grain, S)
  BY <1>1, SameText DEF FF!Task, Item, FF!Counted, FF!TokensOf
<1>11. FarmType'
  BY <1>1, <1>8, <1>9, <1>10 DEF FarmInv, FarmType
<1>12. ChannelInv'
  BY <1>1, <1>3, <1>8 DEF FarmInv, ChannelInv
<1>13. PlaceInv'
  <2>1. \A v \in FF!Task \ {u} : \A z \in Place : At(z, v)' => At(z, v)
    <3>1. \A z \in Place : z[1] = "back" => z[2] \in FF!Worker
      BY DEF Place
    <3>. QED
      BY <1>1, <1>3, <1>8, <1>9, <1>10, <3>1 DEF At
  <2>2. ASSUME NEW z \in Place, At(z, u)'
        PROVE  z = <<"done", 0>> \/ (At(z, u) /\ z # <<"back", w>>)
    <3>1. CASE z = <<"done", 0>>
      BY <3>1
    <3>2. CASE z \in {"queue", "local"} \X FF!Worker
      BY <1>1, <1>10, <2>2, <3>2 DEF At
    <3>3. CASE z \in {"back"} \X FF!Worker
      <4>1. FF!Counted(u) \in Range(back'[z[2]]) /\ z[2] \in FF!Worker
        BY <1>10, <2>2, <3>3 DEF At
      <4>2. z[2] # w
        BY <1>3, <1>4, <1>8, <4>1
      <4>. QED
        BY <1>8, <3>3, <4>1, <4>2 DEF At
    <3>. QED
      BY <3>1, <3>2, <3>3 DEF Place
  <2>. QED
    BY <1>1, <1>4, <1>5, <1>6, <1>7, <2>1, <2>2, TaskMoved DEF FarmInv
<1>14. ReducedSoFar'
  <2>. DEFINE U == {v \in FF!Task : reduced[v] = 1}
              P == Tokens(grain, U)
              Q == Tokens(grain, {u})
  <2>1. {v \in FF!Task : reduced'[v] = 1} = U \cup {u} /\ u \notin U
    BY <1>4, <1>7, <1>9
  <2>2. /\ Tokens(grain, U \cup {u}) = P \cup Q /\ P \cap Q = {}
        /\ P \in SUBSET Position /\ Q \in SUBSET Position
    BY <2>1 DEF Tokens
  <2>3. farmUM = tokenize_line(P) /\ farmTotal = Cardinality(P)
    BY <1>10, SameText DEF FarmInv, ReducedSoFar, FF!ReducedSoFar
  <2>4. r.local_UM = tokenize_line(Q) /\ r.local_words = Cardinality(Q)
    BY <1>4, <1>10, SameText DEF FF!Counted
  <2>5. farmUM' = Add(farmUM, r.local_UM) /\ farmTotal' = farmTotal + r.local_words
    BY <1>1, SameText DEF FF!Reduction
  <2>. HIDE DEF U, P, Q
  <2>6. farmUM' = [x \in Word |-> tokenize_line(P)[x] + tokenize_line(Q)[x]]
    BY <2>3, <2>4, <2>5 DEF Add
  <2>7. /\ \A x \in Word : tokenize_line(P \cup Q)[x] = tokenize_line(P)[x] + tokenize_line(Q)[x]
        /\ Cardinality(P \cup Q) = Cardinality(P) + Cardinality(Q)
    BY <2>2, CountUnion
  <2>8. tokenize_line(P \cup Q) \in [Word -> Nat]
    BY <2>2, CountType
  <2>9. farmUM' = tokenize_line(P \cup Q) /\ farmTotal' = Cardinality(P \cup Q)
    BY <2>3, <2>4, <2>5, <2>6, <2>7, <2>8
  <2>10. FF!ReducedSoFar' <=> /\ farmUM' = tokenize_line(Tokens(grain, U \cup {u}))
                              /\ farmTotal' = Cardinality(Tokens(grain, U \cup {u}))
    BY <1>10, <2>1, SameText DEF FF!ReducedSoFar
  <2>. QED
    BY <2>2, <2>9, <2>10 DEF ReducedSoFar
<1>15. DrainInv'
  <2>1. ASSUME NEW v \in sent
        PROVE  \E z \in Place : At(z, v)'
    <3>1. PICK z \in Place : At(z, v)
      BY DEF FarmInv, DrainInv
    <3>2. v \in FF!Task
      BY DEF FarmInv, FarmType
    <3>3. CASE v = u \/ z = <<"done", 0>>
      <4>1. At(<<"done", 0>>, v)'
        BY <1>9, <3>1, <3>2, <3>3 DEF At
      <4>. QED
        BY <1>5, <4>1
    <3>4. CASE v # u /\ z \in {"queue", "local"} \X FF!Worker
      BY <1>1, <1>10, <3>1, <3>4 DEF At
    <3>5. CASE v # u /\ z \in {"back"} \X FF!Worker
      <4>1. FF!Counted(v) \in Range(back[z[2]]) /\ z[2] \in FF!Worker /\ FF!Counted(v) # r
        BY <1>4, <3>1, <3>5, ItemId DEF At
      <4>2. FF!Counted(v) \in Range(back'[z[2]])
        BY <1>3, <1>8, <4>1
      <4>3. At(z, v)'
        BY <1>10, <3>5, <4>2 DEF At
      <4>. QED
        BY <4>3
    <3>. QED
      BY <3>1, <3>3, <3>4, <3>5 DEF Place
  <2>2. Place' = Place /\ emitter' # "ended"
    BY DEF Place, FF!Reduce
  <2>. QED
    BY <1>1, <1>10, <2>1, <2>2 DEF FarmInv, DrainInv
<1>. QED
  BY <1>11, <1>12, <1>13, <1>14, <1>15 DEF FarmInv

(* What the workers' last words say is no task.                             *)
LEMMA EmitterEndsStep ==
  ASSUME FarmInv, FF!EmitterEnds
  PROVE  FarmInv'
<1>1. /\ \A w \in FF!Worker : back[w] = <<FF!NoTask>>
      /\ back' = [w \in FF!Worker |-> <<>>]
      /\ UNCHANGED <<grain, sent, closed, queue, local, worker, reduced, farmUM, farmTotal>>
  BY DEF FF!EmitterEnds
<1>2. /\ FF!Task' = FF!Task /\ Item' = Item /\ Place' = Place
      /\ \A v : FF!Counted(v)' = FF!Counted(v)
  BY <1>1 DEF FF!Task, Item, FF!Counted, FF!TokensOf, Place
<1>3. \A w \in FF!Worker : Range(back'[w]) = {} /\ IsInjective(back'[w])
  BY <1>1 DEF Range, IsInjective
<1>4. FarmType'
  BY <1>1, <1>2 DEF FarmInv, FarmType
<1>5. ChannelInv'
  BY <1>1, <1>3 DEF FarmInv, ChannelInv
<1>6. PlaceInv'
  <2>1. \A z \in Place : z[1] = "back" => z[2] \in FF!Worker
    BY DEF Place
  <2>2. \A v \in FF!Task : \A z \in Place : At(z, v)' => At(z, v)
    BY <1>1, <1>2, <1>3, <2>1 DEF At
  <2>. QED
    BY <1>1, <1>2, <2>2 DEF FarmInv, PlaceInv
<1>7. \A u \in FF!Task : reduced[u] = 1
  <2>1. ASSUME NEW w \in FF!Worker
        PROVE  /\ queue[w] = <<>> /\ local[w] = FF!NoTask
               /\ Range(back[w]) = {FF!NoTask} /\ Range(queue[w]) = {}
    <3>1. back[w] = <<FF!NoTask>>
      BY <1>1
    <3>2. Range(back[w]) = {FF!NoTask}
      BY <3>1 DEF Range
    <3>3. worker[w] = "ended"
      BY <3>2 DEF FarmInv, ChannelInv
    <3>4. queue[w] = <<>> /\ local[w] = FF!NoTask
      BY <3>3 DEF FarmInv, ChannelInv, DrainInv
    <3>. QED
      BY <3>2, <3>4 DEF Range
  <2>2. ASSUME NEW u \in FF!Task
        PROVE  reduced[u] = 1
    <3>1. u \in sent
      BY DEF FF!EmitterEnds, FarmInv, DrainInv
    <3>2. PICK x \in Place : At(x, u)
      BY <3>1 DEF FarmInv, DrainInv
    <3>3. x \notin {"queue", "local", "back"} \X FF!Worker
      BY <2>1, <3>2, ItemId DEF At
    <3>. QED
      BY <3>2, <3>3 DEF Place, At
  <2>. QED
    BY <2>2
<1>8. DrainInv'
  <2>1. \A v \in FF!Task : At(<<"done", 0>>, v)'
    BY <1>1, <1>7 DEF At
  <2>2. <<"done", 0>> \in Place
    BY DEF Place
  <2>. QED
    BY <1>1, <1>2, <1>7, <2>1, <2>2 DEF FarmInv, FarmType, DrainInv
<1>. QED
  BY <1>1, <1>4, <1>5, <1>6, <1>8, ResultKept DEF FarmInv

(* A worker takes a task from its queue.                                    *)
LEMMA CountStep ==
  ASSUME FarmInv, NEW w \in FF!Worker, FF!CountUnit(w)
  PROVE  FarmInv'
<1>. DEFINE R == FF!Task \cup {FF!EOS}
<1>1. /\ queue[w] # <<>> /\ Head(queue[w]) # FF!EOS /\ worker[w] = "idle"
      /\ local' = [local EXCEPT ![w] = FF!Counted(Head(queue[w]))]
      /\ worker' = [worker EXCEPT ![w] = "busy"]
      /\ queue' = [queue EXCEPT ![w] = Tail(@)]
      /\ UNCHANGED <<grain, sent, closed, back, reduced, farmUM, farmTotal>>
  BY DEF FF!CountUnit, FF!emitterVars
<1>2. queue \in [FF!Worker -> Seq(R)] /\ queue[w] \in Seq(R)
  BY DEF FarmInv, FarmType
<1>3. /\ Head(queue[w]) \in R /\ Head(queue[w]) \in Range(queue[w]) /\ Tail(queue[w]) \in Seq(R)
      /\ Range(queue[w]) = Range(Tail(queue[w])) \cup {Head(queue[w])}
      /\ IsInjective(Tail(queue[w])) /\ Head(queue[w]) \notin Range(Tail(queue[w]))
  <2>1. IsInjective(queue[w])
    BY DEF FarmInv, ChannelInv
  <2>. HIDE DEF R
  <2>. QED
    BY <1>1, <1>2, <2>1, TailRange
<1>4. PICK u \in FF!Task : u = Head(queue[w])
  BY <1>1, <1>3
<1>5. FF!Counted(u) \in Item /\ FF!Counted(u) # FF!NoTask
  BY ItemId
<1>6. <<"queue", w>> \in Place /\ <<"local", w>> \in Place /\ At(<<"queue", w>>, u) /\ u \in sent
  <2>1. <<"queue", w>> \in Place /\ <<"local", w>> \in Place
    BY DEF Place
  <2>2. At(<<"queue", w>>, u)
    BY <1>3, <1>4 DEF At
  <2>. QED
    BY <2>1, <2>2 DEF FarmInv, PlaceInv
<1>7. /\ \A v \in FF!Worker :
           /\ queue'[v] = IF v = w THEN Tail(queue[w]) ELSE queue[v]
           /\ local'[v] = IF v = w THEN FF!Counted(u) ELSE local[v]
           /\ worker'[v] = IF v = w THEN "busy" ELSE worker[v]
      /\ queue' \in [FF!Worker -> Seq(R)]
      /\ local' \in [FF!Worker -> Item]
      /\ worker' \in [FF!Worker -> {"idle", "busy", "ended"}]
  <2>1. /\ local \in [FF!Worker -> Item]
        /\ worker \in [FF!Worker -> {"idle", "busy", "ended"}]
    BY DEF FarmInv, FarmType
  <2>. HIDE DEF R
  <2>. QED
    BY <1>1, <1>2, <1>3, <1>4, <1>5, <2>1
<1>8. /\ FF!Task' = FF!Task /\ Item' = Item
      /\ \A v : FF!Counted(v)' = FF!Counted(v) /\ FF!Counted(v).id = v
  BY <1>1, ItemId DEF FF!Task, Item, FF!Counted, FF!TokensOf
<1>9. FarmType'
  BY <1>1, <1>7, <1>8 DEF FarmInv, FarmType
<1>10. ChannelInv'
  <2>1. FF!NoTask' = FF!NoTask
    BY DEF FF!NoTask, FF!Zero
  <2>. QED
    BY <1>1, <1>3, <1>5, <1>7, <2>1 DEF FarmInv, ChannelInv
<1>11. PlaceInv'
  <2>1. ASSUME NEW v \in FF!Task, NEW z \in Place, At(z, v)'
        PROVE  IF v = u THEN z = <<"local", w>> \/ (At(z, u) /\ z # <<"queue", w>>)
                        ELSE At(z, v)
    <3>1. CASE z \in {"back"} \X FF!Worker \/ z = <<"done", 0>>
      BY <1>1, <1>8, <2>1, <3>1 DEF At
    <3>2. CASE z \in {"local"} \X FF!Worker
      <4>1. local'[z[2]] = FF!Counted(v) /\ z[2] \in FF!Worker /\ z = <<"local", z[2]>>
        BY <1>8, <2>1, <3>2 DEF At
      <4>2. z[2] = w => v = u
        BY <1>7, <1>8, <4>1
      <4>3. z[2] # w => local[z[2]] = FF!Counted(v)
        BY <1>7, <4>1
      <4>. QED
        BY <3>2, <4>1, <4>2, <4>3 DEF At
    <3>3. CASE z \in {"queue"} \X FF!Worker
      <4>1. v \in Range(queue'[z[2]]) /\ z[2] \in FF!Worker
        BY <2>1, <3>3 DEF At
      <4>2. v \in Range(queue[z[2]]) /\ ~ (v = u /\ z[2] = w)
        BY <1>3, <1>4, <1>7, <4>1
      <4>. QED
        BY <3>3, <4>2 DEF At
    <3>. QED
      BY <3>1, <3>2, <3>3 DEF Place
  <2>. QED
    BY <1>1, <1>6, <2>1, TaskMoved DEF FarmInv
<1>12. DrainInv'
  <2>1. ASSUME NEW v \in sent
        PROVE  \E z \in Place : At(z, v)'
    <3>1. PICK z \in Place : At(z, v)
      BY DEF FarmInv, DrainInv
    <3>2. CASE v = u
      <4>1. At(<<"local", w>>, v)'
        BY <1>7, <1>8, <3>2 DEF At
      <4>. QED
        BY <1>6, <4>1
    <3>3. CASE v # u /\ z \in {"queue"} \X FF!Worker
      BY <1>3, <1>4, <1>7, <3>1, <3>3 DEF At
    <3>4. CASE v # u /\ z \in {"local"} \X FF!Worker
      <4>1. z[2] # w
        BY <1>1, <3>1, <3>4, ItemId DEF At, FarmInv, FarmType, ChannelInv
      <4>. QED
        BY <1>7, <1>8, <3>1, <3>4, <4>1 DEF At
    <3>5. CASE z \in {"back"} \X FF!Worker \/ z = <<"done", 0>>
      BY <1>1, <1>8, <3>1, <3>5 DEF At
    <3>. QED
      BY <3>2, <3>3, <3>4, <3>5 DEF Place
  <2>2. ASSUME NEW v \in FF!Worker
        PROVE  /\ \A k \in DOMAIN queue'[v] : queue'[v][k] = FF!EOS => k = Len(queue'[v])
               /\ worker'[v] = "ended" => closed /\ queue'[v] = <<>>
    <3>1. /\ \A k \in DOMAIN queue[v] : queue[v][k] = FF!EOS => k = Len(queue[v])
          /\ worker[v] = "ended" => closed /\ queue[v] = <<>>
      BY DEF FarmInv, DrainInv
    <3>2. FF!EOS \in R
      OBVIOUS
    <3>. HIDE DEF R
    <3>3. v = w => \A k \in DOMAIN Tail(queue[w]) :
                     Tail(queue[w])[k] = FF!EOS => k = Len(Tail(queue[w]))
      BY <1>1, <1>2, <3>1, <3>2, LastInQueue
    <3>. QED
      BY <1>7, <3>1, <3>3
  <2>3. Place' = Place /\ UNCHANGED emitter
    BY DEF Place, FF!CountUnit, FF!emitterVars
  <2>. QED
    BY <1>1, <1>8, <2>1, <2>2, <2>3 DEF FarmInv, DrainInv
<1>. QED
  BY <1>1, <1>9, <1>10, <1>11, <1>12, ResultKept DEF FarmInv

(* A worker sends a counted task back.                                      *)
LEMMA ReturnStep ==
  ASSUME FarmInv, NEW w \in FF!Worker, FF!ReturnTask(w)
  PROVE  FarmInv'
<1>1. /\ worker[w] = "busy"
      /\ local' = [local EXCEPT ![w] = FF!NoTask]
      /\ worker' = [worker EXCEPT ![w] = "idle"]
      /\ back' = [back EXCEPT ![w] = Append(@, local[w])]
      /\ UNCHANGED <<grain, sent, closed, queue, reduced, farmUM, farmTotal>>
  BY DEF FF!ReturnTask, FF!emitterVars
<1>2. /\ back \in [FF!Worker -> Seq(Item)] /\ back[w] \in Seq(Item)
      /\ local \in [FF!Worker -> Item] /\ worker \in [FF!Worker -> {"idle", "busy", "ended"}]
      /\ local[w] \in Item /\ local[w] # FF!NoTask /\ FF!NoTask \notin Range(back[w])
  BY <1>1 DEF FarmInv, FarmType, ChannelInv
<1>3. PICK u \in FF!Task : local[w] = FF!Counted(u)
  BY <1>2 DEF Item
<1>4. /\ <<"back", w>> \in Place /\ <<"local", w>> \in Place /\ <<"back", w>> # <<"local", w>>
      /\ At(<<"local", w>>, u)
  BY <1>3 DEF Place, At
<1>5. u \in sent /\ local[w] \notin Range(back[w])
  BY <1>3, <1>4 DEF FarmInv, PlaceInv, At
<1>6. /\ Append(back[w], local[w]) \in Seq(Item)
      /\ Range(Append(back[w], local[w])) = Range(back[w]) \cup {local[w]}
      /\ IsInjective(Append(back[w], local[w]))
  <2>1. IsInjective(back[w])
    BY DEF FarmInv, ChannelInv
  <2>. QED
    BY <1>2, <1>5, <2>1, AppendRange
<1>7. /\ \A v \in FF!Worker :
           /\ back'[v] = IF v = w THEN Append(back[w], local[w]) ELSE back[v]
           /\ local'[v] = IF v = w THEN FF!NoTask ELSE local[v]
           /\ worker'[v] = IF v = w THEN "idle" ELSE worker[v]
      /\ back' \in [FF!Worker -> Seq(Item)]
      /\ local' \in [FF!Worker -> Item]
      /\ worker' \in [FF!Worker -> {"idle", "busy", "ended"}]
  <2>. DEFINE end == FF!NoTask
  <2>1. end \in Item
    BY ItemId
  <2>2. local' = [local EXCEPT ![w] = end]
    BY <1>1
  <2>. HIDE DEF end
  <2>3. /\ \A v \in FF!Worker : local'[v] = IF v = w THEN end ELSE local[v]
        /\ local' \in [FF!Worker -> Item]
    BY <1>2, <2>1, <2>2
  <2>. QED
    BY <1>1, <1>2, <1>6, <2>3 DEF end
<1>8. /\ FF!Task' = FF!Task /\ Item' = Item /\ FF!NoTask' = FF!NoTask
      /\ \A v : FF!Counted(v)' = FF!Counted(v) /\ FF!Counted(v).id = v
      /\ FF!NoTask \notin {FF!Counted(v) : v \in FF!Task}
  <2>1. /\ FF!Task' = FF!Task /\ Item' = Item /\ FF!NoTask' = FF!NoTask
        /\ \A v : FF!Counted(v)' = FF!Counted(v)
    BY <1>1 DEF FF!Task, Item, FF!Counted, FF!TokensOf, FF!NoTask, FF!Zero
  <2>. QED
    BY <2>1, ItemId
<1>9. FarmType'
  BY <1>1, <1>7, <1>8 DEF FarmInv, FarmType
<1>10. ChannelInv'
  <2>1. ASSUME NEW v \in FF!Worker
        PROVE  /\ IsInjective(queue'[v]) /\ (FF!EOS \in Range(queue'[v]) => closed)
               /\ IsInjective(back'[v]) /\ (FF!NoTask \in Range(back'[v]) => worker'[v] = "ended")
               /\ worker'[v] = "busy" <=> local'[v] # FF!NoTask
    BY <1>1, <1>2, <1>6, <1>7 DEF FarmInv, ChannelInv
  <2>. QED
    BY <1>1, <1>8, <2>1 DEF ChannelInv
<1>11. PlaceInv'
  <2>1. ASSUME NEW v \in FF!Task, NEW z \in Place, At(z, v)'
        PROVE  IF v = u THEN z = <<"back", w>> \/ (At(z, u) /\ z # <<"local", w>>)
                        ELSE At(z, v)
    <3>1. CASE z \in {"queue"} \X FF!Worker \/ z = <<"done", 0>>
      BY <1>1, <1>8, <2>1, <3>1 DEF At
    <3>2. CASE z \in {"local"} \X FF!Worker
      <4>1. local'[z[2]] = FF!Counted(v) /\ z[2] \in FF!Worker
        BY <1>8, <2>1, <3>2 DEF At
      <4>2. z[2] # w /\ local[z[2]] = FF!Counted(v)
        BY <1>7, <1>8, <4>1
      <4>. QED
        BY <3>2, <4>2 DEF At
    <3>3. CASE z \in {"back"} \X FF!Worker
      <4>1. FF!Counted(v) \in Range(back'[z[2]]) /\ z[2] \in FF!Worker /\ z = <<"back", z[2]>>
        BY <1>8, <2>1, <3>3 DEF At
      <4>2. z[2] = w /\ v # u => FF!Counted(v) \in Range(back[w])
        <5>1. v # u => FF!Counted(v) # local[w]
          BY <1>3, <1>8
        <5>. QED
          BY <1>6, <1>7, <4>1, <5>1
      <4>3. z[2] # w => FF!Counted(v) \in Range(back[z[2]])
        BY <1>7, <4>1
      <4>. QED
        BY <3>3, <4>1, <4>2, <4>3 DEF At
    <3>. QED
      BY <3>1, <3>2, <3>3 DEF Place
  <2>. QED
    BY <1>1, <1>4, <1>5, <2>1, TaskMoved DEF FarmInv
<1>12. DrainInv'
  <2>1. ASSUME NEW v \in sent
        PROVE  \E z \in Place : At(z, v)'
    <3>1. PICK z \in Place : At(z, v)
      BY DEF FarmInv, DrainInv
    <3>2. CASE v = u
      <4>1. At(<<"back", w>>, v)'
        BY <1>3, <1>6, <1>7, <1>8, <3>2 DEF At
      <4>. QED
        BY <1>4, <4>1
    <3>3. CASE v # u /\ z \in {"local"} \X FF!Worker
      <4>1. local[z[2]] = FF!Counted(v) /\ z[2] \in FF!Worker
        BY <3>1, <3>3 DEF At
      <4>2. z[2] # w
        BY <1>3, <1>8, <3>3, <4>1
      <4>. QED
        BY <1>7, <1>8, <3>3, <4>1, <4>2 DEF At
    <3>4. CASE z \in {"back"} \X FF!Worker
      BY <1>6, <1>7, <1>8, <3>1, <3>4 DEF At
    <3>5. CASE z \in {"queue"} \X FF!Worker \/ z = <<"done", 0>>
      BY <1>1, <1>8, <3>1, <3>5 DEF At
    <3>. QED
      BY <3>2, <3>3, <3>4, <3>5 DEF Place
  <2>2. \A v \in FF!Worker : worker'[v] = "ended" => worker[v] = "ended"
    BY <1>7
  <2>3. Place' = Place /\ UNCHANGED emitter
    BY DEF Place, FF!ReturnTask, FF!emitterVars
  <2>. QED
    BY <1>1, <1>8, <2>1, <2>2, <2>3 DEF FarmInv, DrainInv
<1>. QED
  BY <1>1, <1>9, <1>10, <1>11, <1>12, ResultKept DEF FarmInv

(* The last word of a worker.                                               *)
LEMMA WorkerEndsStep ==
  ASSUME FarmInv, NEW w \in FF!Worker, FF!WorkerEnds(w)
  PROVE  FarmInv'
<1>. DEFINE R == FF!Task \cup {FF!EOS}
<1>1. /\ worker[w] = "idle" /\ queue[w] # <<>> /\ Head(queue[w]) = FF!EOS
      /\ queue' = [queue EXCEPT ![w] = Tail(@)]
      /\ worker' = [worker EXCEPT ![w] = "ended"]
      /\ back' = [back EXCEPT ![w] = Append(@, FF!NoTask)]
      /\ UNCHANGED <<grain, sent, closed, local, reduced, farmUM, farmTotal>>
  BY DEF FF!WorkerEnds, FF!emitterVars
<1>2. /\ back \in [FF!Worker -> Seq(Item)] /\ back[w] \in Seq(Item)
      /\ queue \in [FF!Worker -> Seq(R)] /\ queue[w] \in Seq(R)
      /\ worker \in [FF!Worker -> {"idle", "busy", "ended"}]
  BY DEF FarmInv, FarmType
<1>3. /\ Tail(queue[w]) \in Seq(R) /\ IsInjective(Tail(queue[w]))
      /\ Range(queue[w]) = Range(Tail(queue[w])) \cup {Head(queue[w])}
  <2>1. IsInjective(queue[w])
    BY DEF FarmInv, ChannelInv
  <2>. HIDE DEF R
  <2>. QED
    BY <1>1, <1>2, <2>1, TailRange
<1>4. /\ Append(back[w], FF!NoTask) \in Seq(Item)
      /\ Range(Append(back[w], FF!NoTask)) = Range(back[w]) \cup {FF!NoTask}
      /\ IsInjective(Append(back[w], FF!NoTask))
  <2>1. IsInjective(back[w]) /\ FF!NoTask \notin Range(back[w])
    BY <1>1 DEF FarmInv, ChannelInv
  <2>. QED
    BY <1>2, <2>1, ItemId, AppendRange
<1>5. /\ \A v \in FF!Worker :
           /\ queue'[v] = IF v = w THEN Tail(queue[w]) ELSE queue[v]
           /\ back'[v] = IF v = w THEN Append(back[w], FF!NoTask) ELSE back[v]
           /\ worker'[v] = IF v = w THEN "ended" ELSE worker[v]
      /\ queue' \in [FF!Worker -> Seq(R)]
      /\ back' \in [FF!Worker -> Seq(Item)]
      /\ worker' \in [FF!Worker -> {"idle", "busy", "ended"}]
  <2>. HIDE DEF R
  <2>. QED
    BY <1>1, <1>2, <1>3, <1>4
<1>6. /\ FF!Task' = FF!Task /\ Item' = Item /\ FF!NoTask' = FF!NoTask /\ Place' = Place
      /\ \A v : FF!Counted(v)' = FF!Counted(v)
  BY <1>1 DEF FF!Task, Item, FF!Counted, FF!TokensOf, FF!NoTask, FF!Zero, Place
<1>7. FarmType'
  BY <1>1, <1>5, <1>6 DEF FarmInv, FarmType
<1>8. ChannelInv'
  <2>1. ASSUME NEW v \in FF!Worker
        PROVE  /\ IsInjective(queue'[v]) /\ (FF!EOS \in Range(queue'[v]) => closed)
               /\ IsInjective(back'[v]) /\ (FF!NoTask \in Range(back'[v]) => worker'[v] = "ended")
               /\ worker'[v] = "busy" <=> local[v] # FF!NoTask
    BY <1>1, <1>3, <1>4, <1>5 DEF FarmInv, ChannelInv
  <2>. QED
    BY <1>1, <1>6, <2>1 DEF ChannelInv
<1>9. PlaceInv'
  <2>1. ASSUME NEW v \in FF!Task, NEW z \in Place, At(z, v)'
        PROVE  At(z, v)
    <3>1. CASE z \in {"local"} \X FF!Worker \/ z = <<"done", 0>>
      BY <1>1, <1>6, <2>1, <3>1 DEF At
    <3>2. CASE z \in {"queue"} \X FF!Worker
      BY <1>3, <1>5, <2>1, <3>2 DEF At
    <3>3. CASE z \in {"back"} \X FF!Worker
      BY <1>4, <1>5, <1>6, <2>1, <3>3, ItemId DEF At
    <3>. QED
      BY <3>1, <3>2, <3>3 DEF Place
  <2>. QED
    BY <1>1, <1>6, <2>1 DEF FarmInv, PlaceInv
<1>10. DrainInv'
  <2>1. ASSUME NEW v \in sent
        PROVE  \E z \in Place : At(z, v)'
    <3>1. PICK z \in Place : At(z, v)
      BY DEF FarmInv, DrainInv
    <3>2. v # FF!EOS
      BY EndIsNoTask DEF FarmInv, FarmType
    <3>3. CASE z \in {"queue"} \X FF!Worker
      BY <1>1, <1>3, <1>5, <3>1, <3>2, <3>3 DEF At
    <3>4. CASE z \in {"back"} \X FF!Worker
      BY <1>4, <1>5, <1>6, <3>1, <3>4 DEF At
    <3>5. CASE z \in {"local"} \X FF!Worker \/ z = <<"done", 0>>
      BY <1>1, <1>6, <3>1, <3>5 DEF At
    <3>. QED
      BY <3>3, <3>4, <3>5 DEF Place
  <2>2. ASSUME NEW v \in FF!Worker
        PROVE  /\ \A k \in DOMAIN queue'[v] : queue'[v][k] = FF!EOS => k = Len(queue'[v])
               /\ worker'[v] = "ended" => closed /\ queue'[v] = <<>>
    <3>1. /\ \A k \in DOMAIN queue[v] : queue[v][k] = FF!EOS => k = Len(queue[v])
          /\ worker[v] = "ended" => closed /\ queue[v] = <<>>
      BY DEF FarmInv, DrainInv
    <3>2. FF!EOS \in R
      OBVIOUS
    <3>3. closed
      <4>1. FF!EOS \in Range(queue[w])
        BY <1>1, <1>3
      <4>. QED
        BY <4>1 DEF FarmInv, ChannelInv
    <3>. HIDE DEF R
    <3>4. v = w => /\ \A k \in DOMAIN Tail(queue[w]) :
                        Tail(queue[w])[k] = FF!EOS => k = Len(Tail(queue[w]))
                   /\ Tail(queue[w]) = <<>>
      BY <1>1, <1>2, <3>1, <3>2, LastInQueue
    <3>. QED
      BY <1>5, <3>1, <3>3, <3>4
  <2>3. UNCHANGED emitter
    BY DEF FF!WorkerEnds, FF!emitterVars
  <2>. QED
    BY <1>1, <1>6, <2>1, <2>2, <2>3 DEF FarmInv, DrainInv
<1>. QED
  BY <1>1, <1>7, <1>8, <1>9, <1>10, ResultKept DEF FarmInv

(* The farm starts in it.                                                   *)
LEMMA FarmInit == FF!Init => FarmInv
<1>. SUFFICES ASSUME FF!Init PROVE FarmInv
  OBVIOUS
<1>1. /\ grain \in {"line", "file"} /\ sent = {} /\ closed = FALSE
      /\ queue = [w \in FF!Worker |-> <<>>] /\ back = [w \in FF!Worker |-> <<>>]
      /\ local = [w \in FF!Worker |-> FF!NoTask]
      /\ worker = [w \in FF!Worker |-> "idle"]
      /\ farmUM = FF!Zero /\ farmTotal = 0 /\ reduced = [i \in FF!Task |-> 0]
  BY DEF FF!Init
<1>2. \A w \in FF!Worker : /\ Range(queue[w]) = {} /\ IsInjective(queue[w])
                           /\ Range(back[w]) = {} /\ IsInjective(back[w])
  BY <1>1 DEF Range, IsInjective
<1>3. FarmType
  <2>. DEFINE end == FF!NoTask
  <2>1. end \in Item
    BY ItemId
  <2>2. local = [w \in FF!Worker |-> end]
    BY <1>1
  <2>. HIDE DEF end
  <2>3. /\ local \in [FF!Worker -> Item] /\ reduced \in [FF!Task -> {0, 1}]
        /\ back \in [FF!Worker -> Seq(Item)]
        /\ queue \in [FF!Worker -> Seq(FF!Task \cup {FF!EOS})]
    BY <1>1, <2>1, <2>2
  <2>. QED
    BY <1>1, <2>3 DEF FarmType
<1>4. ChannelInv
  BY <1>1, <1>2 DEF ChannelInv
<1>5. PlaceInv
  <2>1. ASSUME NEW u \in FF!Task, NEW x \in Place, At(x, u)
        PROVE  FALSE
    <3>1. CASE x \in {"queue", "back", "local"} \X FF!Worker
      BY <1>1, <1>2, <2>1, <3>1, ItemId DEF At
    <3>2. CASE x = <<"done", 0>>
      BY <1>1, <2>1, <3>2 DEF At
    <3>. QED
      BY <3>1, <3>2 DEF Place
  <2>. QED
    BY <2>1 DEF PlaceInv
<1>6. ReducedSoFar
  <2>1. {u \in FF!Task : reduced[u] = 1} = {}
    BY <1>1
  <2>2. FF!TokensOf({}) = {}
    BY SameText DEF FF!TokensOf, Tokens
  <2>. QED
    BY <1>1, <2>1, <2>2, CountEmpty, SameText DEF ReducedSoFar, FF!ReducedSoFar
<1>7. DrainInv
  BY <1>1, <1>2 DEF FF!Init, DrainInv
<1>. QED
  BY <1>3, <1>4, <1>5, <1>6, <1>7 DEF FarmInv

(* Nothing of the farm changes.                                             *)
LEMMA FarmStutters ==
  ASSUME FarmInv,
         UNCHANGED <<grain, sent, closed, queue, back, local, worker, reduced, farmUM, farmTotal,
                    emitter>>
  PROVE  FarmInv'
<1>1. /\ FF!Task' = FF!Task /\ Item' = Item /\ FF!NoTask' = FF!NoTask /\ Place' = Place
      /\ \A v : FF!Counted(v)' = FF!Counted(v)
  BY DEF FF!Task, Item, FF!Counted, FF!TokensOf, FF!NoTask, FF!Zero, Place
<1>2. FarmType' /\ ChannelInv'
  BY <1>1 DEF FarmInv, FarmType, ChannelInv
<1>3. PlaceInv'
  <2>1. \A x, u : At(x, u)' <=> At(x, u)
    BY <1>1 DEF At
  <2>. QED
    BY <1>1, <2>1 DEF FarmInv, PlaceInv
<1>4. DrainInv'
  <2>1. \A x, u : At(x, u)' <=> At(x, u)
    BY <1>1 DEF At
  <2>. QED
    BY <1>1, <2>1 DEF FarmInv, DrainInv
<1>. QED
  BY <1>2, <1>3, <1>4, ResultKept DEF FarmInv

(* Every step of the farm keeps its invariant.                              *)
LEMMA FarmKept == FarmInv /\ FF!Next => FarmInv'
<1>. SUFFICES ASSUME FarmInv, FF!Next PROVE FarmInv'
  OBVIOUS
<1>1. CASE FF!Emitter
  BY <1>1, SendStep, CloseStep, ReduceStep, EmitterEndsStep DEF FF!Emitter
<1>2. ASSUME NEW w \in FF!Worker, FF!WorkerStep(w)
      PROVE  FarmInv'
  BY <1>2, CountStep, ReturnStep, WorkerEndsStep DEF FF!WorkerStep
<1>3. CASE FF!Ended
  BY <1>3, FarmStutters DEF FF!Ended, FF!vars, FF!emitterVars
<1>. QED
  BY <1>1, <1>2, <1>3 DEF FF!Next

-----------------------------------------------------------------------------
(* The program that runs keeps its invariant, the other ones do not move.   *)
LEMMA OmpAlways == AllSpec => []OmpInv
<1>1. AllInit => OmpInv
  BY OmpInit DEF AllInit
<1>2. OmpInv /\ UNCHANGED vars => OmpInv'
  BY OmpStutters
<1>3. OmpInv /\ [AllNext]_allVars => OmpInv'
  BY <1>2, OmpStep DEF AllNext, OpenMPStep, FarmStep, PrimesStep, allVars
<1>. QED
  BY <1>1, <1>3, PTL DEF AllSpec

(* The same of the farm.                                                    *)
LEMMA FarmAlways == AllSpec => []FarmInv
<1>1. AllInit => FarmInv
  BY FarmInit DEF AllInit
<1>2. FarmInv /\ UNCHANGED farmVars => FarmInv'
  BY FarmStutters DEF farmVars
<1>3. FarmInv /\ [AllNext]_allVars => FarmInv'
  BY <1>2, FarmKept DEF AllNext, OpenMPStep, FarmStep, PrimesStep, allVars
<1>. QED
  BY <1>1, <1>3, PTL DEF AllSpec

(* Word-Count-omp-line.cpp and Word-Count-omp-file.cpp: the map every       *)
(* thread adds to and the words the threads still hold make up what the     *)
(* sequential program counts, at every moment and for every interleaving.   *)
THEOREM NoWordLost == AllSpec => []NothingLost
BY OmpAlways, PTL DEF OmpInv

(* Word-Count-omp*.cpp: every parallel region that has ended left the       *)
(* sequential result.                                                       *)
THEOREM EveryRegionExact == AllSpec => []RegionsExact
BY OmpAlways, PTL DEF OmpInv

(* Word-Count-ff-line.cpp and Word-Count-ff-file.cpp, Emitter::svc: the map *)
(* holds exactly the tasks that came back, in whatever order they did, and  *)
(* when the emitter has ended, its map and its total are the ones of the    *)
(* sequential program: no task is dropped on its way.                       *)
THEOREM ReductionExact == AllSpec => []FarmExact
<1>1. FarmInv => FarmExact
  <2>1. FarmInv => FF!ReducedSoFar
    BY DEF FarmInv, ReducedSoFar
  <2>2. ASSUME FarmInv, emitter = "ended"
        PROVE  farmUM = SequentialUM /\ farmTotal = SequentialTotal
    <3>1. {u \in FF!Task : reduced[u] = 1} = Units(grain)
      BY <2>2, SameText DEF FarmInv, DrainInv, FF!Task
    <3>2. farmUM = tokenize_line(Tokens(grain, Units(grain)))
            /\ farmTotal = Cardinality(Tokens(grain, Units(grain)))
      BY <2>2, <3>1, SameText DEF FarmInv, ReducedSoFar, FF!ReducedSoFar, FF!TokensOf
    <3>3. Tokens(grain, Units(grain)) = Position
      BY DEF Tokens, Units, UnitOf, Position
    <3>. QED
      BY <3>2, <3>3 DEF SequentialUM, SequentialTotal
  <2>3. FF!SequentialUM = SequentialUM /\ FF!SequentialTotal = SequentialTotal
    BY SameText DEF FF!SequentialUM, FF!SequentialTotal, SequentialUM, SequentialTotal
  <2>4. FarmInv => FF!EndedExact
    BY <2>2, <2>3 DEF FF!EndedExact
  <2>. QED
    BY <2>1, <2>4 DEF FarmExact
<1>. QED
  BY <1>1, FarmAlways, PTL

-----------------------------------------------------------------------------
(* The primes.  Is_prime tries 2, 3 and the numbers around the multiples of *)
(* 6 up to the root; the least divisor of a number that is not prime is one *)
(* of them.                                                                 *)
LEMMA PrimesCardinality == \A S : Primes!Cardinality(S) = Cardinality(S)
BY DEF Primes!Cardinality, Cardinality

(* A multiple has no remainder.                                             *)
LEMMA Multiple ==
  ASSUME NEW d \in Nat \ {0}, NEW e \in Nat
  PROVE  (d * e) % d = 0
<1>. DEFINE a == d * e
            q == a \div d
            r == a % d
<1>1. a \in Nat /\ q \in Nat /\ r \in 0 .. d - 1 /\ a = d * q + r
  <2>1. a \in Nat
    OBVIOUS
  <2>. HIDE DEF a
  <2>. QED BY <2>1, Division
<1>2. a = d * e
  OBVIOUS
<1>. HIDE DEF a, q, r
<1>3. CASE q < e
  <2>1. PICK j \in Nat : e = q + 1 + j
    <3>1. e - q - 1 \in Nat /\ e = q + 1 + (e - q - 1)
      BY <1>1, <1>3
    <3>. QED BY <3>1
  <2>2. d * e = d * q + d + d * j /\ d * j \in Nat
    BY <1>1, <2>1
  <2>. QED BY <1>1, <1>2, <2>2
<1>4. CASE q > e
  <2>1. PICK j \in Nat : q = e + 1 + j
    <3>1. q - e - 1 \in Nat /\ q = e + 1 + (q - e - 1)
      BY <1>1, <1>4
    <3>. QED BY <3>1
  <2>2. d * q = d * e + d + d * j /\ d * j \in Nat
    BY <1>1, <2>1
  <2>. QED BY <1>1, <1>2, <2>2
<1>5. CASE q = e
  <2>1. r = 0
    BY <1>1, <1>2, <1>5
  <2>. QED BY <2>1 DEF r, a
<1>. QED
  BY <1>1, <1>3, <1>4, <1>5

(* What divides a divisor divides the number.                               *)
LEMMA Divides ==
  ASSUME NEW n \in Nat, NEW d \in Nat \ {0}, NEW k \in Nat \ {0}, n % d = 0, d % k = 0
  PROVE  n % k = 0
<1>1. PICK e \in Nat : n = d * e
  <2>1. n \div d \in Nat /\ n = d * (n \div d)
    BY Division
  <2>. QED BY <2>1
<1>2. PICK c \in Nat : d = k * c
  <2>1. d \div k \in Nat /\ d = k * (d \div k)
    BY Division
  <2>. QED BY <2>1
<1>3. n = k * (c * e) /\ c * e \in Nat
  BY <1>1, <1>2
<1>. QED
  BY <1>3, Multiple

(* The least divisor is not above the root.                                 *)
LEMMA LeastDivisor ==
  ASSUME NEW n \in Nat, n > 3, ~Primes!Prime(n)
  PROVE  \E d \in 2 .. n - 1 : n % d = 0 /\ d * d <= n
<1>. DEFINE D == {d \in 2 .. n - 1 : n % d = 0}
<1>1. D \in SUBSET Nat /\ D # {}
  BY DEF Primes!Prime
<1>2. PICK d \in D : \A k \in D : d <= k
  <2>. HIDE DEF D
  <2>. QED BY <1>1, LeastNatural
<1>3. d \in 2 .. n - 1 /\ n % d = 0
  BY <1>2
<1>. DEFINE e == n \div d
<1>4. e \in Nat /\ n = d * e
  <2>1. d \in Nat \ {0}
    BY <1>3
  <2>2. e \in Nat /\ n = d * e + (n % d)
    BY <2>1, Division
  <2>3. d * e \in Nat
    <3>. HIDE DEF e
    <3>. QED BY <2>1, <2>2
  <2>. QED
    <3>. HIDE DEF e
    <3>. QED BY <1>3, <2>2, <2>3
<1>. HIDE DEF e
<1>5. e >= 2
  <2>1. e # 0 /\ e # 1
    BY <1>3, <1>4
  <2>. QED BY <1>4, <2>1
<1>6. e <= n - 1
  <2>1. PICK c \in Nat : d = c + 2
    <3>1. d - 2 \in Nat /\ d = (d - 2) + 2
      BY <1>3
    <3>. QED BY <3>1
  <2>2. d * e = c * e + 2 * e /\ c * e \in Nat
    BY <1>4, <2>1
  <2>. QED BY <1>4, <1>5, <2>2
<1>7. n = e * d
  BY <1>3, <1>4
<1>8. n % e = 0
  BY <1>3, <1>4, <1>5, <1>7, Multiple
<1>9. d <= e
  <2>1. e \in D
    BY <1>4, <1>5, <1>6, <1>8
  <2>. QED BY <1>2, <2>1
<1>10. d * d <= d * e
  <2>1. PICK c \in Nat : e = d + c
    <3>1. e - d \in Nat /\ e = d + (e - d)
      BY <1>3, <1>4, <1>9
    <3>. QED BY <3>1
  <2>2. d * e = d * d + d * c /\ d * c \in Nat /\ d * d \in Nat
    BY <1>3, <2>1
  <2>. QED BY <2>2
<1>. QED
  BY <1>3, <1>4, <1>10

(* The test is right.                                                       *)
LEMMA PrimeTest ==
  ASSUME NEW n \in Nat
  PROVE  Primes!is_prime(n) <=> Primes!Prime(n)
<1>. DEFINE T == {j \in 5 .. n : j % 6 = 5 /\ j * j <= n}
<1>1. CASE n <= 3
  <2>1. n \in {0, 1, 2, 3}
    BY <1>1
  <2>2. Primes!Prime(n) <=> n > 1
    <3>1. n = 3 => (2 .. n - 1 = {2} /\ 3 % 2 # 0)
      OBVIOUS
    <3>2. n = 2 => 2 .. n - 1 = {}
      OBVIOUS
    <3>. QED BY <2>1, <3>1, <3>2 DEF Primes!Prime
  <2>. QED BY <1>1, <2>2 DEF Primes!is_prime
<1>2. CASE n > 3 /\ Primes!Prime(n)
  <2>1. \A d \in 2 .. n - 1 : n % d # 0
    BY <1>2 DEF Primes!Prime
  <2>2. 2 \in 2 .. n - 1 /\ 3 \in 2 .. n - 1
    BY <1>2
  <2>3. ASSUME NEW i \in T PROVE i \in 2 .. n - 1 /\ i + 2 \in 2 .. n - 1
    <3>1. i \in 5 .. n /\ i * i <= n
      OBVIOUS
    <3>2. PICK c \in Nat : i = c + 5
      <4>1. i - 5 \in Nat /\ i = (i - 5) + 5
        BY <3>1
      <4>. QED BY <4>1
    <3>3. i * i = c * c + 10 * c + 25 /\ c * c \in Nat
      BY <3>2
    <3>. QED BY <3>1, <3>2, <3>3
  <2>4. \A i \in T : n % i # 0 /\ n % (i + 2) # 0
    BY <2>1, <2>3
  <2>. QED BY <1>2, <2>1, <2>2, <2>4 DEF Primes!is_prime
<1>3. CASE n > 3 /\ Primes!is_prime(n) /\ ~Primes!Prime(n)
  <2>1. n % 2 # 0 /\ n % 3 # 0 /\ \A i \in T : n % i # 0 /\ n % (i + 2) # 0
    BY <1>3 DEF Primes!is_prime
  <2>2. PICK d \in 2 .. n - 1 : n % d = 0 /\ d * d <= n
    BY <1>3, LeastDivisor
  <2>3. d % 2 # 0 /\ d % 3 # 0
    <3>1. d \in Nat \ {0} /\ n % d = 0
      BY <2>2
    <3>2. ASSUME NEW k \in {2, 3}, d % k = 0 PROVE n % k = 0
      <4>1. k \in Nat \ {0}
        OBVIOUS
      <4>. QED BY <3>1, <3>2, <4>1, Divides
    <3>. QED BY <2>1, <3>2
  <2>4. d >= 5 /\ d % 6 \in {1, 5}
    BY <2>3
  <2>5. CASE d % 6 = 5
    <3>1. d \in T
      BY <2>2, <2>4, <2>5
    <3>. QED BY <2>1, <2>2, <3>1
  <2>6. CASE d % 6 = 1
    <3>1. d >= 7
      BY <2>4, <2>6
    <3>2. PICK c \in Nat : d = c + 7
      <4>1. d - 7 \in Nat /\ d = (d - 7) + 7
        BY <3>1
      <4>. QED BY <4>1
    <3>3. (d - 2) % 6 = 5 /\ d - 2 \in 5 .. n
      BY <2>2, <2>6, <3>1
    <3>4. (d - 2) * (d - 2) <= d * d
      <4>1. d - 2 = c + 5 /\ (c + 5) * (c + 5) = c * c + 10 * c + 25
                 /\ (c + 7) * (c + 7) = c * c + 14 * c + 49 /\ c * c \in Nat
        BY <3>2
      <4>. QED BY <3>2, <4>1
    <3>5. d - 2 \in T
      BY <2>2, <3>3, <3>4
    <3>6. n % ((d - 2) + 2) # 0
      BY <2>1, <3>5
    <3>7. (d - 2) + 2 = d
      OBVIOUS
    <3>. QED BY <2>2, <3>6, <3>7
  <2>. QED BY <2>4, <2>5, <2>6
<1>. QED
  BY <1>1, <1>2, <1>3

-----------------------------------------------------------------------------
(* A set of numbers in order.                                               *)
Smaller(S, x) == {y \in S : y < x}

(* As many numbers are smaller as the place says.                           *)
LEMMA Places ==
  ASSUME NEW S \in SUBSET Nat, IsFiniteSet(S)
  PROVE  /\ \A x \in S : Cardinality(Smaller(S, x)) \in 0 .. Cardinality(S) - 1
         /\ \A x, y \in S : x < y => Cardinality(Smaller(S, x)) < Cardinality(Smaller(S, y))
         /\ \A k \in 1 .. Cardinality(S) : \E x \in S : Cardinality(Smaller(S, x)) = k - 1
<1>. DEFINE n == Cardinality(S)
            f == [x \in S |-> Cardinality(Smaller(S, x))]
<1>0. n \in Nat
  BY FS_CardinalityType
<1>1. \A x \in S : IsFiniteSet(Smaller(S, x)) /\ Cardinality(Smaller(S, x)) \in Nat
  <2>1. \A x \in S : Smaller(S, x) \in SUBSET S
    BY DEF Smaller
  <2>. QED BY <2>1, FS_Subset, FS_CardinalityType
<1>2. ASSUME NEW x \in S PROVE Cardinality(Smaller(S, x)) < n
  <2>1. Smaller(S, x) \in SUBSET S /\ x \notin Smaller(S, x)
    BY DEF Smaller
  <2>2. Cardinality(Smaller(S, x)) <= n /\ Cardinality(Smaller(S, x)) # n
    BY <2>1, FS_Subset
  <2>. QED BY <1>0, <1>1, <2>2
<1>3. ASSUME NEW x \in S, NEW y \in S, x < y
      PROVE  Cardinality(Smaller(S, x)) < Cardinality(Smaller(S, y))
  <2>1. Smaller(S, x) \in SUBSET Smaller(S, y) /\ x \in Smaller(S, y) /\ x \notin Smaller(S, x)
    <3>1. x \in Nat /\ y \in Nat /\ \A z \in S : z \in Nat /\ (z < x => z < y)
      BY <1>3
    <3>2. ~(x < x)
      BY <3>1
    <3>. QED BY <1>3, <3>1, <3>2, Zenon DEF Smaller
  <2>2. Cardinality(Smaller(S, x)) <= Cardinality(Smaller(S, y))
        /\ Cardinality(Smaller(S, x)) # Cardinality(Smaller(S, y))
    BY <1>1, <2>1, FS_Subset
  <2>. QED BY <1>1, <2>2
<1>4. \A x \in S : f[x] \in 0 .. n - 1
  <2>. HIDE DEF n
  <2>. QED BY <1>0, <1>1, <1>2 DEF n
<1>5. f \in Surjection(S, 0 .. n - 1)
  <2>1. f \in [S -> 0 .. n - 1]
    BY <1>4
  <2>2. \A x, y \in S : f[x] = f[y] => x = y
    <3>1. SUFFICES ASSUME NEW x \in S, NEW y \in S, x # y PROVE f[x] # f[y]
      OBVIOUS
    <3>2. x \in Nat /\ y \in Nat
      OBVIOUS
    <3>3. x < y \/ y < x
      BY <3>1, <3>2
    <3>4. x < y => f[x] < f[y]
      BY <1>3
    <3>5. y < x => f[y] < f[x]
      BY <1>3
    <3>6. f[x] \in Nat /\ f[y] \in Nat
      BY <1>1
    <3>. HIDE DEF f
    <3>. QED BY <3>3, <3>4, <3>5, <3>6
  <2>3. f \in Injection(S, 0 .. n - 1)
    <3>. HIDE DEF f, n
    <3>. QED BY <2>1, <2>2, Zenon DEF Injection, IsInjective
  <2>4. IsFiniteSet(0 .. n - 1) /\ Cardinality(0 .. n - 1) = n
    <3>1. IsFiniteSet(0 .. n - 1) /\ Cardinality(0 .. n - 1) = IF 0 > n - 1 THEN 0 ELSE n - 1 - 0 + 1
      BY <1>0, FS_Interval
    <3>. HIDE DEF n
    <3>. QED BY <1>0, <3>1
  <2>. HIDE DEF f
  <2>. QED BY <2>3, <2>4, FS_Injection
<1>6. ASSUME NEW k \in 1 .. n PROVE \E x \in S : Cardinality(Smaller(S, x)) = k - 1
  <2>1. k - 1 \in 0 .. n - 1
    BY <1>0
  <2>2. PICK x \in S : f[x] = k - 1
    <3>. HIDE DEF f, n
    <3>. QED BY <1>5, <2>1, Zenon DEF Surjection
  <2>. QED BY <2>2
<1>7. \A x \in S : Cardinality(Smaller(S, x)) \in 0 .. n - 1
  BY <1>4
<1>. QED
  BY <1>3, <1>6, <1>7

(* Its sequence has each of its numbers, once, in order.                    *)
LEMMA AscendingFacts ==
  ASSUME NEW S \in SUBSET Nat, IsFiniteSet(S)
  PROVE  LET s == Primes!Ascending(S)
         IN  /\ s \in Seq(Nat) /\ Len(s) = Cardinality(S)
             /\ Primes!ToSet(s) = S
             /\ Primes!Sorted(s)
             /\ \A k \in 1 .. Len(s) : s[k] \in S /\ Cardinality(Smaller(S, s[k])) = k - 1
<1>. DEFINE s == Primes!Ascending(S)
            n == Cardinality(S)
<1>0. n \in Nat
  BY FS_CardinalityType
<1>1. s = [k \in 1 .. n |-> CHOOSE x \in S : Cardinality(Smaller(S, x)) = k - 1]
  BY DEF Primes!Ascending, Primes!Cardinality, Cardinality, Smaller
<1>. HIDE DEF s, n
<1>2. \A k \in 1 .. n : s[k] \in S /\ Cardinality(Smaller(S, s[k])) = k - 1
  BY <1>1, Places DEF n
<1>3. s \in Seq(Nat) /\ Len(s) = n /\ DOMAIN s = 1 .. n
  <2>1. DOMAIN s = 1 .. n /\ s = [k \in 1 .. n |-> s[k]]
    BY <1>1
  <2>2. \A k \in 1 .. n : s[k] \in Nat
    BY <1>2
  <2>3. s \in [1 .. n -> Nat]
    BY <2>1, <2>2, Zenon
  <2>. QED BY <1>0, <2>1, <2>3
<1>4. Primes!ToSet(s) = S
  <2>1. Primes!ToSet(s) = {s[k] : k \in 1 .. n}
    BY <1>3 DEF Primes!ToSet
  <2>2. ASSUME NEW x \in S PROVE \E k \in 1 .. n : s[k] = x
    <3>. DEFINE c == Cardinality(Smaller(S, x))
    <3>1. c \in 0 .. n - 1
      BY Places DEF n
    <3>. HIDE DEF c
    <3>2. c + 1 \in 1 .. n /\ (c + 1) - 1 = c
      BY <1>0, <3>1
    <3>3. s[c + 1] \in S /\ Cardinality(Smaller(S, s[c + 1])) = c
      BY <1>2, <3>2
    <3>. DEFINE y == s[c + 1]
    <3>4. y \in S /\ Cardinality(Smaller(S, y)) = Cardinality(Smaller(S, x))
      BY <3>3 DEF c
    <3>5. y \in Nat /\ x \in Nat
      BY <3>4
    <3>6. ~(x < y) /\ ~(y < x)
      <4>. HIDE DEF y
      <4>1. \A z \in S : Cardinality(Smaller(S, z)) \in 0 .. Cardinality(S) - 1
        BY Places
      <4>2. Cardinality(Smaller(S, y)) \in Int /\ Cardinality(Smaller(S, x)) \in Int
        BY <3>4, <4>1
      <4>3. x < y => Cardinality(Smaller(S, x)) < Cardinality(Smaller(S, y))
        BY <3>4, Places
      <4>4. y < x => Cardinality(Smaller(S, y)) < Cardinality(Smaller(S, x))
        BY <3>4, Places
      <4>. QED BY <3>4, <4>2, <4>3, <4>4
    <3>7. x = y
      <4>. HIDE DEF y
      <4>. QED BY <3>5, <3>6
    <3>. QED BY <3>2, <3>7
  <2>. QED BY <1>2, <2>1, <2>2
<1>5. Primes!Sorted(s)
  <2>1. SUFFICES ASSUME NEW j \in 1 .. n, NEW k \in 1 .. n, j < k PROVE s[j] < s[k]
    BY <1>3 DEF Primes!Sorted
  <2>. DEFINE x == s[j]
              y == s[k]
  <2>2. x \in S /\ y \in S /\ Cardinality(Smaller(S, x)) = j - 1 /\ Cardinality(Smaller(S, y)) = k - 1
    BY <1>2
  <2>. HIDE DEF x, y
  <2>3. x # y
    BY <2>1, <2>2
  <2>4. ~(y < x)
    <3>1. y < x => Cardinality(Smaller(S, y)) < Cardinality(Smaller(S, x))
      BY <2>2, Places
    <3>. QED BY <2>1, <2>2, <3>1
  <2>5. x < y
    BY <2>2, <2>3, <2>4
  <2>. QED BY <2>5 DEF x, y
<1>. QED
  BY <1>2, <1>3, <1>4, <1>5 DEF s, n

-----------------------------------------------------------------------------
(* No number twice.                                                         *)
Once(s) == \A j, k \in 1 .. Len(s) : s[j] = s[k] => j = k

(* A sorted list names no number twice.                                     *)
LEMMA SortedOnce ==
  ASSUME NEW s \in Seq(Nat), Primes!Sorted(s)
  PROVE  Once(s)
<1>1. SUFFICES ASSUME NEW j \in 1 .. Len(s), NEW k \in 1 .. Len(s), j < k PROVE s[j] # s[k]
  BY DEF Once
<1>2. s[j] < s[k] /\ s[j] \in Nat /\ s[k] \in Nat
  BY <1>1 DEF Primes!Sorted
<1>. QED
  BY <1>2

(* Then as many places as numbers.                                          *)
LEMMA OncePlaces ==
  ASSUME NEW s \in Seq(Nat), Once(s), NEW T \in SUBSET Primes!ToSet(s)
  PROVE  /\ IsFiniteSet(T)
         /\ Cardinality({j \in DOMAIN s : s[j] \in T}) = Cardinality(T)
<1>. DEFINE P == {j \in DOMAIN s : s[j] \in T}
            f == [j \in P |-> s[j]]
<1>1. DOMAIN s = 1 .. Len(s) /\ Len(s) \in Nat
  OBVIOUS
<1>2. P \in SUBSET (1 .. Len(s)) /\ IsFiniteSet(P)
  <2>1. P \in SUBSET (1 .. Len(s))
    BY <1>1
  <2>2. IsFiniteSet(1 .. Len(s))
    BY <1>1, FS_Interval
  <2>. QED BY <2>1, <2>2, FS_Subset
<1>3. f \in [P -> T] /\ \A j, k \in P : f[j] = f[k] => j = k
  BY <1>1 DEF Once
<1>4. \A x \in T : \E j \in P : f[j] = x
  BY DEF Primes!ToSet
<1>5. f \in Bijection(P, T)
  <2>. HIDE DEF P, f
  <2>. QED BY <1>3, <1>4, Zenon DEF Bijection, Injection, Surjection, IsInjective
<1>. QED
  BY <1>2, <1>5, FS_Bijection DEF ExistsBijection

(* A list without repetitions is as long as the set of its numbers is       *)
(* large.                                                                   *)
LEMMA OnceLength ==
  ASSUME NEW s \in Seq(Nat), Once(s)
  PROVE  /\ IsFiniteSet(Primes!ToSet(s)) /\ Cardinality(Primes!ToSet(s)) = Len(s)
         /\ Primes!ToSet(s) \in SUBSET Nat
<1>1. {j \in DOMAIN s : s[j] \in Primes!ToSet(s)} = 1 .. Len(s)
  BY DEF Primes!ToSet
<1>2. Len(s) \in Nat
  OBVIOUS
<1>3. Cardinality(1 .. Len(s)) = Len(s)
  <2>1. Cardinality(1 .. Len(s)) = IF 1 > Len(s) THEN 0 ELSE Len(s) - 1 + 1
    BY <1>2, FS_Interval
  <2>. QED BY <1>2, <2>1
<1>4. Primes!ToSet(s) \in SUBSET Nat
  BY DEF Primes!ToSet
<1>. QED
  BY <1>1, <1>3, <1>4, OncePlaces

(* std::sort puts numbers of which none is there twice in order.            *)
LEMMA SortFacts ==
  ASSUME NEW s \in Seq(Nat), Once(s)
  PROVE  LET t == Primes!sort(s)
         IN  /\ t \in Seq(Nat) /\ Primes!ToSet(t) = Primes!ToSet(s)
             /\ Primes!Sorted(t) /\ Once(t)
<1>. DEFINE S == Primes!ToSet(s)
            t == Primes!sort(s)
            a == Primes!Ascending(S)
            Under(v) == {j \in DOMAIN s : s[j] < v}
            UpTo(v) == {j \in DOMAIN s : s[j] <= v}
            Best(v, k) == Cardinality(Under(v)) < k /\ k <= Cardinality(UpTo(v))
<1>1. S \in SUBSET Nat /\ IsFiniteSet(S) /\ Cardinality(S) = Len(s) /\ Len(s) \in Nat
  BY OnceLength
<1>2. DOMAIN s = 1 .. Len(s)
  OBVIOUS
<1>3. t = [k \in 1 .. Len(s) |-> CHOOSE v \in S : Best(v, k)]
  BY <1>2 DEF Primes!sort, Primes!Cardinality, Cardinality
<1>4. ASSUME NEW v \in S
      PROVE  /\ Cardinality(Smaller(S, v)) \in Nat
             /\ Cardinality(Under(v)) = Cardinality(Smaller(S, v))
             /\ Cardinality(UpTo(v)) = Cardinality(Smaller(S, v)) + 1
  <2>1. Smaller(S, v) \in SUBSET S /\ v \notin Smaller(S, v) /\ v \in Nat
    BY <1>1 DEF Smaller
  <2>2. Under(v) = {j \in DOMAIN s : s[j] \in Smaller(S, v)}
    BY DEF Smaller, Primes!ToSet
  <2>3. UpTo(v) = {j \in DOMAIN s : s[j] \in Smaller(S, v) \cup {v}}
    <3>1. \A j \in DOMAIN s : s[j] \in S /\ s[j] \in Nat
      BY DEF Primes!ToSet
    <3>2. \A j \in DOMAIN s : s[j] <= v <=> (s[j] < v \/ s[j] = v)
      BY <2>1, <3>1
    <3>. QED BY <3>1, <3>2, Zenon DEF Smaller
  <2>4. Smaller(S, v) \cup {v} \in SUBSET S
    BY <2>1
  <2>5. Cardinality(Under(v)) = Cardinality(Smaller(S, v))
    <3>. HIDE DEF S
    <3>. QED BY <2>1, <2>2, OncePlaces DEF S
  <2>6. Cardinality(UpTo(v)) = Cardinality(Smaller(S, v) \cup {v})
    <3>. HIDE DEF S
    <3>. QED BY <2>3, <2>4, OncePlaces DEF S
  <2>7. IsFiniteSet(Smaller(S, v))
    <3>. HIDE DEF S
    <3>. QED BY <1>1, <2>1, FS_Subset
  <2>8. Cardinality(Smaller(S, v) \cup {v}) = Cardinality(Smaller(S, v)) + 1
    <3>. HIDE DEF S
    <3>. QED BY <2>1, <2>7, FS_AddElement
  <2>9. Cardinality(Smaller(S, v)) \in Nat
    <3>. HIDE DEF S
    <3>. QED BY <2>7, FS_CardinalityType
  <2>. HIDE DEF S, Under, UpTo
  <2>. QED BY <2>5, <2>6, <2>8, <2>9
<1>5. /\ a \in Seq(Nat) /\ Len(a) = Cardinality(S) /\ Primes!ToSet(a) = S /\ Primes!Sorted(a)
      /\ \A k \in 1 .. Len(a) : a[k] \in S /\ Cardinality(Smaller(S, a[k])) = k - 1
  <2>. HIDE DEF S
  <2>. QED BY <1>1, AscendingFacts
<1>6. ASSUME NEW k \in 1 .. Len(s) PROVE (CHOOSE v \in S : Best(v, k)) = a[k]
  <2>1. a[k] \in S /\ Cardinality(Smaller(S, a[k])) = k - 1
    <3>. HIDE DEF S, a
    <3>. QED BY <1>1, <1>5
  <2>. HIDE DEF S, a, Under, UpTo
  <2>2. Best(a[k], k)
    BY <1>4, <2>1
  <2>3. ASSUME NEW v \in S, Best(v, k) PROVE v = a[k]
    <3>1. Cardinality(Smaller(S, v)) = k - 1
      BY <1>4, <2>3
    <3>2. v < a[k] => Cardinality(Smaller(S, v)) < Cardinality(Smaller(S, a[k]))
      BY <1>1, <2>1, Places
    <3>3. a[k] < v => Cardinality(Smaller(S, a[k])) < Cardinality(Smaller(S, v))
      BY <1>1, <2>1, Places
    <3>4. ~(k - 1 < k - 1)
      OBVIOUS
    <3>5. v \in Nat /\ a[k] \in Nat
      BY <1>1, <2>1
    <3>6. ~(v < a[k]) /\ ~(a[k] < v)
      BY <2>1, <3>1, <3>2, <3>3, <3>4
    <3>. QED BY <3>5, <3>6
  <2>. HIDE DEF Best
  <2>. QED BY <2>1, <2>2, <2>3, Zenon
<1>7. t = a
  <2>1. a = [k \in 1 .. Len(s) |-> a[k]]
    <3>. HIDE DEF S, a
    <3>. QED BY <1>1, <1>5
  <2>2. t = [k \in 1 .. Len(s) |-> a[k]]
    <3>. HIDE DEF S, a, t, Best
    <3>. QED BY <1>3, <1>6, Zenon
  <2>. HIDE DEF S, a, t
  <2>. QED BY <2>1, <2>2
<1>8. Once(a)
  <2>. HIDE DEF S, a
  <2>. QED BY <1>5, SortedOnce
<1>. HIDE DEF t, a, S
<1>. QED
  BY <1>5, <1>7, <1>8 DEF t, S

-----------------------------------------------------------------------------
(* The elements of two sequences in a row.                                  *)
LEMMA ConcatElements ==
  ASSUME NEW R, NEW p \in Seq(R), NEW q \in Seq(R)
  PROVE  /\ p \o q \in Seq(R) /\ Len(p \o q) = Len(p) + Len(q)
         /\ \A i \in 1 .. Len(p) : (p \o q)[i] = p[i]
         /\ \A i \in Len(p) + 1 .. Len(p) + Len(q) : (p \o q)[i] = q[i - Len(p)]
OBVIOUS

(* v is put into s behind its first k numbers.                              *)
Spliced(t, s, v, k) ==
  /\ t \in Seq(Nat) /\ Len(t) = Len(s) + Len(v)
  /\ \A i \in 1 .. Len(t) :
       t[i] = IF i <= k THEN s[i] ELSE IF i <= k + Len(v) THEN v[i - k] ELSE s[i - Len(v)]

(* A list put between the first k and the others.                           *)
LEMMA Splice ==
  ASSUME NEW s \in Seq(Nat), NEW v \in Seq(Nat), NEW k \in 0 .. Len(s)
  PROVE  Spliced(SubSeq(s, 1, k) \o v \o SubSeq(s, k + 1, Len(s)), s, v, k)
<1>. DEFINE a == SubSeq(s, 1, k)
            b == SubSeq(s, k + 1, Len(s))
<1>1. a \in Seq(Nat) /\ Len(a) = k /\ \A i \in 1 .. k : a[i] = s[i]
  OBVIOUS
<1>2. b \in Seq(Nat) /\ Len(b) = Len(s) - k /\ \A i \in 1 .. Len(s) - k : b[i] = s[i + k]
  OBVIOUS
<1>. HIDE DEF a, b
<1>3. /\ a \o v \in Seq(Nat) /\ Len(a \o v) = k + Len(v)
      /\ \A i \in 1 .. k : (a \o v)[i] = a[i]
      /\ \A i \in k + 1 .. k + Len(v) : (a \o v)[i] = v[i - k]
  BY <1>1, ConcatElements
<1>. DEFINE c == a \o v
<1>4. c \in Seq(Nat) /\ Len(c) = k + Len(v)
  BY <1>3
<1>5. /\ c \o b \in Seq(Nat) /\ Len(c \o b) = (k + Len(v)) + (Len(s) - k)
      /\ \A i \in 1 .. k + Len(v) : (c \o b)[i] = c[i]
      /\ \A i \in (k + Len(v)) + 1 .. (k + Len(v)) + (Len(s) - k) : (c \o b)[i] = b[i - (k + Len(v))]
  <2>. HIDE DEF c
  <2>1. /\ c \o b \in Seq(Nat) /\ Len(c \o b) = Len(c) + Len(b)
        /\ \A i \in 1 .. Len(c) : (c \o b)[i] = c[i]
        /\ \A i \in Len(c) + 1 .. Len(c) + Len(b) : (c \o b)[i] = b[i - Len(c)]
    BY <1>2, <1>4, ConcatElements
  <2>2. Len(c) = k + Len(v) /\ Len(b) = Len(s) - k
    BY <1>2, <1>4
  <2>. QED BY <2>1, <2>2, Zenon
<1>0. Len(s) \in Nat /\ Len(v) \in Nat /\ k \in Nat /\ k <= Len(s)
  OBVIOUS
<1>. DEFINE ls == Len(s)
            lv == Len(v)
            d == c \o b
            T(i) == IF i <= k THEN s[i] ELSE IF i <= k + lv THEN v[i - k] ELSE s[i - lv]
<1>6. ASSUME NEW i \in 1 .. ls + lv PROVE d[i] = T(i)
  <2>1. CASE i <= k
    <3>1. i \in 1 .. k /\ i \in 1 .. k + lv
      BY <1>0, <2>1
    <3>2. d[i] = c[i] /\ c[i] = a[i] /\ a[i] = s[i]
      BY <1>1, <1>3, <1>5, <3>1
    <3>. HIDE DEF d, c
    <3>. QED BY <2>1, <3>2
  <2>2. CASE i > k /\ i <= k + lv
    <3>1. i \in k + 1 .. k + lv /\ i \in 1 .. k + lv /\ ~(i <= k)
      BY <1>0, <2>2
    <3>2. d[i] = c[i] /\ c[i] = v[i - k]
      BY <1>3, <1>5, <3>1
    <3>. HIDE DEF d, c
    <3>. QED BY <2>2, <3>1, <3>2
  <2>3. CASE i > k + lv
    <3>1. /\ i \in (k + lv) + 1 .. (k + lv) + (ls - k)
          /\ i - (k + lv) \in 1 .. ls - k /\ (i - (k + lv)) + k = i - lv
          /\ ~(i <= k) /\ ~(i <= k + lv)
      BY <1>0, <2>3
    <3>2. d[i] = b[i - (k + lv)]
      BY <1>5, <3>1
    <3>3. b[i - (k + lv)] = s[(i - (k + lv)) + k]
      BY <1>2, <3>1
    <3>4. d[i] = s[i - lv]
      <4>. HIDE DEF d
      <4>. QED BY <3>1, <3>2, <3>3
    <3>. HIDE DEF d
    <3>. QED BY <3>1, <3>4
  <2>4. i <= k \/ (i > k /\ i <= k + lv) \/ i > k + lv
    BY <1>0
  <2>. HIDE DEF d, T
  <2>. QED BY <2>1, <2>2, <2>3, <2>4
<1>7. d = SubSeq(s, 1, k) \o v \o SubSeq(s, k + 1, Len(s))
  BY DEF a, b
<1>8. d \in Seq(Nat) /\ Len(d) = ls + lv
  BY <1>0, <1>5
<1>9. Spliced(d, s, v, k)
  <2>. HIDE DEF d
  <2>. QED BY <1>6, <1>8 DEF Spliced
<1>. HIDE DEF d
<1>. QED
  BY <1>7, <1>9

(* A list put behind another one.                                           *)
LEMMA SpliceBehind ==
  ASSUME NEW s \in Seq(Nat), NEW v \in Seq(Nat)
  PROVE  Spliced(s \o v, s, v, Len(s))
<1>1. /\ s \o v \in Seq(Nat) /\ Len(s \o v) = Len(s) + Len(v)
      /\ \A i \in 1 .. Len(s) : (s \o v)[i] = s[i]
      /\ \A i \in Len(s) + 1 .. Len(s) + Len(v) : (s \o v)[i] = v[i - Len(s)]
  BY ConcatElements
<1>2. Len(s) \in Nat /\ Len(v) \in Nat
  OBVIOUS
<1>. DEFINE d == s \o v
            ls == Len(s)
            lv == Len(v)
<1>3. ASSUME NEW i \in 1 .. ls + lv
      PROVE  d[i] = IF i <= ls THEN s[i] ELSE IF i <= ls + lv THEN v[i - ls] ELSE s[i - lv]
  <2>1. i <= ls => i \in 1 .. ls
    BY <1>2
  <2>2. ~(i <= ls) => i \in ls + 1 .. ls + lv /\ i <= ls + lv
    BY <1>2
  <2>. QED BY <1>1, <2>1, <2>2
<1>. HIDE DEF d
<1>. QED
  BY <1>1, <1>3 DEF Spliced, d

(* The numbers of both.                                                     *)
LEMMA SplicedSet ==
  ASSUME NEW s \in Seq(Nat), NEW v \in Seq(Nat), NEW k \in 0 .. Len(s), NEW t,
         Spliced(t, s, v, k)
  PROVE  /\ Primes!ToSet(t) = Primes!ToSet(s) \cup Primes!ToSet(v)
         /\ Once(s) /\ Once(v) /\ Primes!ToSet(s) \cap Primes!ToSet(v) = {} => Once(t)
<1>1. t \in Seq(Nat) /\ Len(t) = Len(s) + Len(v) /\ Len(s) \in Nat /\ Len(v) \in Nat
  BY DEF Spliced
<1>2. /\ Primes!ToSet(s) = {s[i] : i \in 1 .. Len(s)}
      /\ Primes!ToSet(v) = {v[i] : i \in 1 .. Len(v)}
      /\ Primes!ToSet(t) = {t[i] : i \in 1 .. Len(t)}
  <2>1. DOMAIN s = 1 .. Len(s) /\ DOMAIN v = 1 .. Len(v) /\ DOMAIN t = 1 .. Len(t)
    BY <1>1
  <2>. QED BY <2>1, Zenon DEF Primes!ToSet
<1>. DEFINE T(i) == IF i <= k THEN s[i] ELSE IF i <= k + Len(v) THEN v[i - k] ELSE s[i - Len(v)]
<1>3. \A i \in 1 .. Len(t) : t[i] = T(i)
  BY DEF Spliced
<1>4. ASSUME NEW i \in 1 .. Len(t)
      PROVE  \/ i <= k /\ i \in 1 .. Len(s) /\ t[i] = s[i]
             \/ i > k /\ i <= k + Len(v) /\ i - k \in 1 .. Len(v) /\ t[i] = v[i - k]
             \/ i > k + Len(v) /\ i - Len(v) \in 1 .. Len(s) /\ i - Len(v) > k /\ t[i] = s[i - Len(v)]
  <2>1. t[i] = T(i)
    BY <1>3
  <2>2. i \in Nat /\ i >= 1 /\ i <= Len(s) + Len(v) /\ k \in Nat /\ k <= Len(s)
    BY <1>1
  <2>3. CASE i <= k
    <3>1. i \in 1 .. Len(s)
      BY <1>1, <2>2, <2>3
    <3>. QED BY <2>1, <2>3, <3>1
  <2>4. CASE ~(i <= k) /\ i <= k + Len(v)
    <3>1. i > k /\ i - k \in 1 .. Len(v)
      BY <1>1, <2>2, <2>4
    <3>. QED BY <2>1, <2>4, <3>1
  <2>5. CASE ~(i <= k) /\ ~(i <= k + Len(v))
    <3>1. i > k + Len(v) /\ i - Len(v) \in 1 .. Len(s) /\ i - Len(v) > k
      BY <1>1, <2>2, <2>5
    <3>. QED BY <2>1, <2>5, <3>1
  <2>. QED BY <2>3, <2>4, <2>5
<1>5. ASSUME NEW i \in 1 .. Len(s) PROVE \E j \in 1 .. Len(t) : t[j] = s[i]
  <2>1. CASE i <= k
    <3>1. i \in 1 .. Len(t)
      BY <1>1
    <3>2. t[i] = T(i)
      BY <1>3, <3>1
    <3>. QED BY <2>1, <3>1, <3>2
  <2>2. CASE i > k
    <3>1. i + Len(v) \in 1 .. Len(t)
      BY <1>1
    <3>2. t[i + Len(v)] = T(i + Len(v))
      BY <1>3, <3>1
    <3>3. ~(i + Len(v) <= k) /\ ~(i + Len(v) <= k + Len(v)) /\ (i + Len(v)) - Len(v) = i
      BY <1>1, <2>2
    <3>. QED BY <3>1, <3>2, <3>3
  <2>. QED BY <2>1, <2>2
<1>6. ASSUME NEW i \in 1 .. Len(v) PROVE \E j \in 1 .. Len(t) : t[j] = v[i]
  <2>1. i + k \in 1 .. Len(t)
    BY <1>1
  <2>2. t[i + k] = T(i + k)
    BY <1>3, <2>1
  <2>3. ~(i + k <= k) /\ i + k <= k + Len(v) /\ (i + k) - k = i
    BY <1>1
  <2>. QED BY <2>1, <2>2, <2>3
<1>7. Primes!ToSet(t) = Primes!ToSet(s) \cup Primes!ToSet(v)
  <2>. HIDE DEF T
  <2>1. \A i \in 1 .. Len(t) : t[i] \in Primes!ToSet(s) \cup Primes!ToSet(v)
    BY <1>2, <1>4
  <2>. QED BY <1>2, <1>5, <1>6, <2>1
<1>8. ASSUME Once(s), Once(v), Primes!ToSet(s) \cap Primes!ToSet(v) = {},
             NEW i \in 1 .. Len(t), NEW j \in 1 .. Len(t), i < j
      PROVE  t[i] # t[j]
  <2>1. \A a \in 1 .. Len(s) : \A b \in 1 .. Len(v) : s[a] # v[b]
    BY <1>2, <1>8
  <2>2. \A a, b \in 1 .. Len(s) : a < b => s[a] # s[b]
    BY <1>8 DEF Once
  <2>3. \A a, b \in 1 .. Len(v) : a < b => v[a] # v[b]
    BY <1>8 DEF Once
  <2>. HIDE DEF T
  <2>4. CASE i <= k
    <3>1. i \in 1 .. Len(s) /\ t[i] = s[i]
      <4>1. ~(i > k) /\ ~(i > k + Len(v))
        BY <1>1, <2>4
      <4>. QED BY <1>4, <4>1
    <3>2. CASE j <= k /\ j \in 1 .. Len(s) /\ t[j] = s[j]
      BY <1>8, <2>2, <3>1, <3>2
    <3>3. CASE j > k /\ j <= k + Len(v) /\ j - k \in 1 .. Len(v) /\ t[j] = v[j - k]
      BY <2>1, <3>1, <3>3
    <3>4. CASE j > k + Len(v) /\ j - Len(v) \in 1 .. Len(s) /\ j - Len(v) > k /\ t[j] = s[j - Len(v)]
      <4>1. i < j - Len(v)
        BY <1>1, <2>4, <3>1, <3>4
      <4>. QED BY <2>2, <3>1, <3>4, <4>1
    <3>. QED BY <1>4, <3>2, <3>3, <3>4
  <2>5. CASE i > k /\ i <= k + Len(v)
    <3>1. i - k \in 1 .. Len(v) /\ t[i] = v[i - k]
      BY <1>4, <2>5
    <3>2. CASE j <= k + Len(v)
      <4>1. j - k \in 1 .. Len(v) /\ t[j] = v[j - k]
        BY <1>4, <1>8, <2>5, <3>2
      <4>2. i - k < j - k
        BY <1>8
      <4>. QED BY <2>3, <3>1, <4>1, <4>2
    <3>3. CASE j > k + Len(v)
      <4>1. j - Len(v) \in 1 .. Len(s) /\ t[j] = s[j - Len(v)]
        BY <1>4, <3>3
      <4>. QED BY <2>1, <3>1, <4>1
    <3>. QED BY <1>1, <3>2, <3>3
  <2>6. CASE i > k + Len(v)
    <3>1. /\ i - Len(v) \in 1 .. Len(s) /\ t[i] = s[i - Len(v)]
          /\ j - Len(v) \in 1 .. Len(s) /\ t[j] = s[j - Len(v)] /\ i - Len(v) < j - Len(v)
      <4>1. j > k + Len(v) /\ i > k /\ j > k /\ ~(i <= k + Len(v)) /\ ~(j <= k + Len(v))
            /\ ~(i <= k) /\ ~(j <= k)
        BY <1>1, <1>8, <2>6
      <4>2. i - Len(v) \in 1 .. Len(s) /\ t[i] = s[i - Len(v)]
        BY <1>4, <4>1
      <4>3. j - Len(v) \in 1 .. Len(s) /\ t[j] = s[j - Len(v)]
        BY <1>4, <4>1
      <4>4. i - Len(v) < j - Len(v)
        BY <1>1, <1>8
      <4>. QED BY <4>2, <4>3, <4>4
    <3>. QED BY <2>2, <3>1
  <2>. QED BY <1>1, <2>4, <2>5, <2>6
<1>9. Once(s) /\ Once(v) /\ Primes!ToSet(s) \cap Primes!ToSet(v) = {} => Once(t)
  <2>1. SUFFICES ASSUME Once(s), Once(v), Primes!ToSet(s) \cap Primes!ToSet(v) = {},
                        NEW i \in 1 .. Len(t), NEW j \in 1 .. Len(t), i # j
                 PROVE  t[i] # t[j]
    BY DEF Once
  <2>2. i < j \/ j < i
    BY <2>1
  <2>. QED BY <1>8, <2>1, <2>2
<1>. QED
  BY <1>7, <1>9

(* In order, if the place is between what is smaller and what is greater.   *)
LEMMA SplicedSorted ==
  ASSUME NEW s \in Seq(Nat), NEW v \in Seq(Nat), NEW k \in 0 .. Len(s), NEW t,
         Spliced(t, s, v, k), Primes!Sorted(s), Primes!Sorted(v),
         \A i \in 1 .. k : \A j \in 1 .. Len(v) : s[i] < v[j],
         \A i \in k + 1 .. Len(s) : \A j \in 1 .. Len(v) : v[j] < s[i]
  PROVE  Primes!Sorted(t)
<1>1. t \in Seq(Nat) /\ Len(t) = Len(s) + Len(v) /\ Len(s) \in Nat /\ Len(v) \in Nat
  BY DEF Spliced
<1>2. \A a, b \in 1 .. Len(s) : a < b => s[a] < s[b]
  BY DEF Primes!Sorted
<1>3. \A a, b \in 1 .. Len(v) : a < b => v[a] < v[b]
  BY DEF Primes!Sorted
<1>4. ASSUME NEW i \in 1 .. Len(t)
      PROVE  /\ i <= k => i \in 1 .. Len(s) /\ t[i] = s[i]
             /\ i > k /\ i <= k + Len(v) => i - k \in 1 .. Len(v) /\ t[i] = v[i - k]
             /\ i > k + Len(v) => i - Len(v) \in k + 1 .. Len(s) /\ i - Len(v) \in 1 .. Len(s)
                                  /\ t[i] = s[i - Len(v)]
  <2>1. t[i] = IF i <= k THEN s[i] ELSE IF i <= k + Len(v) THEN v[i - k] ELSE s[i - Len(v)]
    BY DEF Spliced
  <2>2. i \in Nat /\ i >= 1 /\ i <= Len(s) + Len(v) /\ k \in Nat /\ k <= Len(s)
    BY <1>1
  <2>3. CASE i <= k
    <3>1. i \in 1 .. Len(s) /\ ~(i > k) /\ ~(i > k + Len(v))
      BY <1>1, <2>2, <2>3
    <3>. QED BY <2>1, <2>3, <3>1
  <2>4. CASE ~(i <= k) /\ i <= k + Len(v)
    <3>1. i > k /\ i - k \in 1 .. Len(v) /\ ~(i > k + Len(v))
      BY <1>1, <2>2, <2>4
    <3>. QED BY <2>1, <2>4, <3>1
  <2>5. CASE ~(i <= k) /\ ~(i <= k + Len(v))
    <3>1. i > k + Len(v) /\ i - Len(v) \in 1 .. Len(s) /\ i - Len(v) \in k + 1 .. Len(s)
      BY <1>1, <2>2, <2>5
    <3>. QED BY <2>1, <2>5, <3>1
  <2>. QED BY <2>3, <2>4, <2>5
<1>5. SUFFICES ASSUME NEW i \in 1 .. Len(t), NEW j \in 1 .. Len(t), i < j PROVE t[i] < t[j]
  BY <1>1 DEF Primes!Sorted
<1>6. CASE j <= k
  <2>1. i <= k
    BY <1>1, <1>5, <1>6
  <2>2. i \in 1 .. Len(s) /\ t[i] = s[i] /\ j \in 1 .. Len(s) /\ t[j] = s[j]
    BY <1>4, <1>6, <2>1
  <2>. QED BY <1>2, <1>5, <2>2
<1>7. CASE i <= k /\ j > k /\ j <= k + Len(v)
  <2>1. i \in 1 .. k /\ t[i] = s[i] /\ j - k \in 1 .. Len(v) /\ t[j] = v[j - k]
    BY <1>1, <1>4, <1>7
  <2>. QED BY <2>1
<1>8. CASE i <= k /\ j > k + Len(v)
  <2>1. i \in 1 .. Len(s) /\ t[i] = s[i] /\ j - Len(v) \in k + 1 .. Len(s)
        /\ j - Len(v) \in 1 .. Len(s) /\ t[j] = s[j - Len(v)]
    BY <1>4, <1>8
  <2>2. i < j - Len(v)
    BY <1>8, <2>1
  <2>. QED BY <1>2, <2>1, <2>2
<1>9. CASE i > k /\ j <= k + Len(v)
  <2>1. /\ i - k \in 1 .. Len(v) /\ t[i] = v[i - k]
        /\ j - k \in 1 .. Len(v) /\ t[j] = v[j - k] /\ i - k < j - k
    BY <1>1, <1>4, <1>5, <1>9
  <2>. QED BY <1>3, <2>1
<1>10. CASE i > k /\ i <= k + Len(v) /\ j > k + Len(v)
  <2>1. i - k \in 1 .. Len(v) /\ t[i] = v[i - k] /\ j - Len(v) \in k + 1 .. Len(s)
        /\ t[j] = s[j - Len(v)]
    BY <1>4, <1>10
  <2>. QED BY <2>1
<1>11. CASE i > k + Len(v)
  <2>1. /\ i - Len(v) \in 1 .. Len(s) /\ t[i] = s[i - Len(v)]
        /\ j - Len(v) \in 1 .. Len(s) /\ t[j] = s[j - Len(v)] /\ i - Len(v) < j - Len(v)
    BY <1>1, <1>4, <1>5, <1>11
  <2>. QED BY <1>2, <2>1
<1>. QED
  BY <1>1, <1>5, <1>6, <1>7, <1>8, <1>9, <1>10, <1>11

(* upper_bound is a place of the sequence, and in a sorted one the place    *)
(* behind what is not greater.                                              *)
LEMMA UpperBound ==
  ASSUME NEW s \in Seq(Nat), NEW x \in Nat, NEW k \in Primes!upper_bound(s, x)
  PROVE  /\ k \in 0 .. Len(s)
         /\ Primes!Sorted(s) => /\ \A i \in 1 .. k : s[i] <= x
                                /\ \A i \in k + 1 .. Len(s) : x < s[i]
<1>0. Len(s) \in Nat /\ DOMAIN s = 1 .. Len(s)
  OBVIOUS
<1>1. CASE ~Primes!Sorted(s)
  BY <1>1 DEF Primes!upper_bound
<1>2. CASE Primes!Sorted(s)
  <2>. DEFINE D == {i \in DOMAIN s : s[i] <= x}
  <2>1. k = Cardinality(D)
    BY <1>2, PrimesCardinality DEF Primes!upper_bound
  <2>2. \A i \in 1 .. Len(s) : s[i] \in Nat
    OBVIOUS
  <2>3. \A i \in 1 .. Len(s) : \A j \in D : i <= j => i \in D
    <3>1. \A i, j \in 1 .. Len(s) : i < j => s[i] < s[j]
      BY <1>0, <1>2 DEF Primes!Sorted
    <3>. QED BY <1>0, <2>2, <3>1
  <2>4. D \in SUBSET (0 .. Len(s)) /\ D \in SUBSET (1 .. Len(s))
    BY <1>0
  <2>5. CASE D = {}
    <3>1. k = 0
      BY <2>1, <2>5, FS_EmptySet
    <3>2. \A i \in 1 .. Len(s) : i \notin D
      BY <2>5
    <3>. QED BY <1>0, <2>2, <3>1, <3>2
  <2>6. CASE D # {}
    <3>1. PICK m \in D : \A i \in D : i <= m
      <4>. HIDE DEF D
      <4>. QED BY <1>0, <2>4, <2>6, Greatest
    <3>2. m \in 1 .. Len(s)
      BY <2>4
    <3>3. D = 1 .. m
      <4>1. \A i \in D : i \in 1 .. m
        <5>. HIDE DEF D
        <5>. QED BY <2>4, <3>1, <3>2
      <4>2. \A i \in 1 .. m : i \in D
        <5>1. \A i \in 1 .. m : i \in 1 .. Len(s) /\ i <= m
          BY <1>0, <3>2
        <5>. HIDE DEF D
        <5>. QED BY <2>3, <3>1, <5>1
      <4>. HIDE DEF D
      <4>. QED BY <4>1, <4>2
    <3>4. Cardinality(1 .. m) = m
      <4>1. Cardinality(1 .. m) = IF 1 > m THEN 0 ELSE m - 1 + 1
        BY <3>2, FS_Interval
      <4>. QED BY <3>2, <4>1
    <3>5. k = m
      <4>. HIDE DEF D
      <4>. QED BY <2>1, <3>3, <3>4
    <3>6. \A i \in 1 .. m : s[i] <= x
      BY <3>3
    <3>7. \A i \in m + 1 .. Len(s) : x < s[i]
      <4>1. \A i \in m + 1 .. Len(s) : i \in 1 .. Len(s) /\ i \notin 1 .. m
        BY <1>0, <3>2
      <4>2. \A i \in m + 1 .. Len(s) : ~(s[i] <= x)
        BY <1>0, <3>3, <4>1
      <4>. QED BY <2>2, <4>1, <4>2
    <3>. QED BY <1>0, <3>2, <3>5, <3>6, <3>7
  <2>. QED BY <2>5, <2>6
<1>. QED
  BY <1>1, <1>2

-----------------------------------------------------------------------------
(* The numbers of a part, from the first to the one before the end.         *)
Numbers(p) == p[1] .. p[2] - 1
Parts == {p \in Nat \X Nat : p[1] <= p[2]}

(* What a worker finds in a part: its primes, once, in order.               *)
LEMMA PrimesInFacts ==
  ASSUME NEW p \in Parts
  PROVE  LET s == Primes!PrimesIn(p)
         IN  /\ s \in Seq(Nat) /\ Primes!Sorted(s) /\ Once(s)
             /\ Primes!ToSet(s) = {n \in Numbers(p) : Primes!is_prime(n)}
<1>. DEFINE S == {n \in Numbers(p) : Primes!is_prime(n)}
<1>1. Numbers(p) \in SUBSET Nat /\ IsFiniteSet(Numbers(p))
  <2>1. p[1] \in Int /\ p[2] - 1 \in Int /\ p[1] \in Nat
    BY DEF Parts
  <2>2. IsFiniteSet(p[1] .. p[2] - 1)
    BY <2>1, FS_Interval
  <2>. QED BY <2>1, <2>2 DEF Numbers
<1>2. S \in SUBSET Numbers(p)
  OBVIOUS
<1>3. S \in SUBSET Nat /\ IsFiniteSet(S)
  <2>. HIDE DEF S
  <2>. QED BY <1>1, <1>2, FS_Subset
<1>4. Primes!PrimesIn(p) = Primes!Ascending(S)
  BY DEF Primes!PrimesIn, Numbers
<1>. HIDE DEF S
<1>5. LET s == Primes!Ascending(S)
      IN  s \in Seq(Nat) /\ Primes!ToSet(s) = S /\ Primes!Sorted(s)
  BY <1>3, AscendingFacts
<1>6. Once(Primes!Ascending(S))
  BY <1>5, SortedOnce
<1>. QED
  BY <1>4, <1>5, <1>6 DEF S

(* m parts of the numbers from n1 to n2: one behind the other, all of them. *)
Splits(p, m, n1, n2) ==
  /\ \A i \in 0 .. m - 1 : p[i] \in Parts /\ n1 <= p[i][1] /\ p[i][2] <= n2
  /\ \A i, j \in 0 .. m - 1 : i < j => p[i][2] <= p[j][1]
  /\ \A x \in n1 .. n2 - 1 : \E i \in 0 .. m - 1 : x \in Numbers(p[i])

(* The parts of a split are within its range,                               *)
LEMMA SplitWithin ==
  ASSUME NEW m \in Nat, NEW n1 \in Nat, NEW n2 \in Nat, NEW p, Splits(p, m, n1, n2)
  PROVE  \A i \in 0 .. m - 1 : Numbers(p[i]) \subseteq n1 .. n2 - 1
<1>1. \A i \in 0 .. m - 1 : p[i][1] \in Nat /\ p[i][2] \in Nat /\ n1 <= p[i][1] /\ p[i][2] <= n2
  BY DEF Splits, Parts
<1>. QED
  BY <1>1 DEF Numbers

(* disjoint and in order.                                                   *)
LEMMA SplitApart ==
  ASSUME NEW m \in Nat, NEW n1 \in Nat, NEW n2 \in Nat, NEW p, Splits(p, m, n1, n2),
         NEW i \in 0 .. m - 1, NEW j \in 0 .. m - 1
  PROVE  /\ Numbers(p[i]) \subseteq n1 .. n2 - 1
         /\ i # j => Numbers(p[i]) \cap Numbers(p[j]) = {}
         /\ i < j => \A x \in Numbers(p[i]) : \A y \in Numbers(p[j]) : x < y
<1>1. /\ p[i][1] \in Nat /\ p[i][2] \in Nat /\ p[j][1] \in Nat /\ p[j][2] \in Nat
      /\ n1 <= p[i][1] /\ p[i][2] <= n2
      /\ (i < j => p[i][2] <= p[j][1]) /\ (j < i => p[j][2] <= p[i][1])
  BY DEF Splits, Parts
<1>. QED
  BY <1>1 DEF Numbers

(* The cuts between the parts of Part.                                      *)
Cut(n1, n2, m, k) ==
  n1 + k * ((n2 - n1) \div m) + (IF k < (n2 - n1) % m THEN k ELSE (n2 - n1) % m)

(* The cuts are numbers in order, from the first to the last of the range.  *)
LEMMA Cuts ==
  ASSUME NEW n1 \in Nat, NEW n2 \in Nat, n1 <= n2, NEW m \in Nat \ {0}
  PROVE  /\ \A k \in 0 .. m : Cut(n1, n2, m, k) \in Nat
         /\ Cut(n1, n2, m, 0) = n1 /\ Cut(n1, n2, m, m) = n2
         /\ \A j, k \in 0 .. m : j <= k => Cut(n1, n2, m, j) <= Cut(n1, n2, m, k)
<1>. DEFINE q == (n2 - n1) \div m
            r == (n2 - n1) % m
            c(k) == n1 + k * q + (IF k < r THEN k ELSE r)
<1>1. q \in Nat /\ r \in 0 .. m - 1 /\ n2 - n1 = m * q + r
  <2>1. n2 - n1 \in Nat
    OBVIOUS
  <2>. QED BY <2>1, Division
<1>2. \A k \in 0 .. m : Cut(n1, n2, m, k) = c(k)
  BY DEF Cut
<1>. HIDE DEF q, r
<1>3. ASSUME NEW k \in 0 .. m PROVE c(k) \in Nat
  <2>1. k * q \in Nat
    BY <1>1
  <2>. QED BY <1>1, <2>1
<1>4. c(0) = n1
  BY <1>1
<1>5. c(m) = n2
  <2>1. m * q \in Nat /\ ~(m < r)
    BY <1>1
  <2>. QED BY <1>1, <2>1
<1>6. ASSUME NEW j \in 0 .. m, NEW k \in 0 .. m, j <= k PROVE c(j) <= c(k)
  <2>1. PICK d \in Nat : k = j + d
    <3>1. k - j \in Nat /\ k = j + (k - j)
      BY <1>6
    <3>. QED BY <3>1
  <2>2. k * q = j * q + d * q /\ j * q \in Nat /\ d * q \in Nat
    BY <1>1, <2>1
  <2>. HIDE DEF c
  <2>. DEFINE a == IF j < r THEN j ELSE r
              b == IF k < r THEN k ELSE r
  <2>3. a <= b /\ a \in Nat /\ b \in Nat
    BY <1>1, <1>6
  <2>4. c(j) = n1 + j * q + a /\ c(k) = n1 + k * q + b
    BY DEF c
  <2>. HIDE DEF a, b
  <2>5. k * q \in Nat /\ j * q <= k * q
    BY <2>2
  <2>. QED BY <2>2, <2>3, <2>4, <2>5
<1>. HIDE DEF c
<1>7. 0 \in 0 .. m /\ m \in 0 .. m
  OBVIOUS
<1>. QED
  BY <1>2, <1>3, <1>4, <1>5, <1>6, <1>7

(* Cuts that do not decrease leave no number between them.                  *)
LEMMA CutsCover ==
  ASSUME NEW m \in Nat \ {0}, NEW c, \A k \in 0 .. m : c[k] \in Nat, NEW x \in Nat,
         c[0] <= x, x < c[m]
  PROVE  \E i \in 0 .. m - 1 : c[i] <= x /\ x < c[i + 1]
<1>. DEFINE D == {k \in 0 .. m - 1 : c[k] <= x}
<1>1. D \in SUBSET (0 .. m - 1) /\ D # {} /\ m - 1 \in Nat
  OBVIOUS
<1>2. PICK i \in D : \A k \in D : k <= i
  <2>. HIDE DEF D
  <2>. QED BY <1>1, Greatest
<1>3. i \in 0 .. m - 1 /\ c[i] <= x
  BY <1>2
<1>4. CASE i + 1 = m
  BY <1>3, <1>4
<1>5. CASE i + 1 # m
  <2>1. i + 1 \in 0 .. m - 1 /\ i + 1 \in 0 .. m /\ ~(i + 1 <= i)
    BY <1>3, <1>5
  <2>2. i + 1 \notin D
    <3>. HIDE DEF D
    <3>. QED BY <1>2, <2>1
  <2>3. ~(c[i + 1] <= x) /\ c[i + 1] \in Nat
    BY <2>1, <2>2
  <2>. QED BY <1>3, <2>3
<1>. QED
  BY <1>4, <1>5

(* Part splits a range.                                                     *)
LEMMA PartSplits ==
  ASSUME NEW n1 \in Nat, NEW n2 \in Nat, n1 <= n2, NEW m \in Nat \ {0},
         NEW p, \A i \in 0 .. m - 1 : p[i] = Primes!Part(n1, n2, m, i)
  PROVE  Splits(p, m, n1, n2)
<1>. DEFINE c == [k \in 0 .. m |-> Cut(n1, n2, m, k)]
<1>1. \A i \in 0 .. m - 1 : p[i] = <<c[i], c[i + 1]>>
  <2>1. SUFFICES ASSUME NEW i \in 0 .. m - 1 PROVE p[i] = <<c[i], c[i + 1]>>
    OBVIOUS
  <2>2. i \in 0 .. m /\ i + 1 \in 0 .. m
    OBVIOUS
  <2>3. p[i] = <<Cut(n1, n2, m, i), Cut(n1, n2, m, i + 1)>>
    BY DEF Primes!Part, Cut
  <2>. QED BY <2>2, <2>3
<1>2. /\ \A k \in 0 .. m : c[k] \in Nat
      /\ c[0] = n1 /\ c[m] = n2
      /\ \A j, k \in 0 .. m : j <= k => c[j] <= c[k]
  BY Cuts
<1>. HIDE DEF c
<1>3. ASSUME NEW i \in 0 .. m - 1
      PROVE  p[i] \in Parts /\ n1 <= p[i][1] /\ p[i][2] <= n2
  <2>1. i \in 0 .. m /\ i + 1 \in 0 .. m /\ 0 \in 0 .. m /\ m \in 0 .. m /\ 0 <= i /\ i <= i + 1 /\ i + 1 <= m
    OBVIOUS
  <2>2. c[i] \in Nat /\ c[i + 1] \in Nat /\ c[i] <= c[i + 1] /\ c[0] <= c[i] /\ c[i + 1] <= c[m]
    BY <1>2, <2>1
  <2>3. p[i] = <<c[i], c[i + 1]>>
    BY <1>1
  <2>4. p[i][1] = c[i] /\ p[i][2] = c[i + 1]
    BY <2>3
  <2>5. p[i] \in Parts
    BY <2>2, <2>3, <2>4 DEF Parts
  <2>. QED BY <1>2, <2>2, <2>4, <2>5
<1>4. ASSUME NEW i \in 0 .. m - 1, NEW j \in 0 .. m - 1, i < j PROVE p[i][2] <= p[j][1]
  <2>1. i + 1 \in 0 .. m /\ j \in 0 .. m /\ i + 1 <= j
    BY <1>4
  <2>. QED BY <1>1, <1>2, <2>1
<1>5. ASSUME NEW x \in n1 .. n2 - 1 PROVE \E i \in 0 .. m - 1 : x \in Numbers(p[i])
  <2>1. x \in Nat /\ c[0] <= x /\ x < c[m]
    BY <1>2
  <2>2. PICK i \in 0 .. m - 1 : c[i] <= x /\ x < c[i + 1]
    BY <1>2, <2>1, CutsCover
  <2>3. p[i][1] = c[i] /\ p[i][2] = c[i + 1] /\ c[i] \in Nat /\ c[i + 1] \in Nat
    BY <1>1, <1>2
  <2>. QED BY <2>1, <2>2, <2>3 DEF Numbers
<1>. QED
  BY <1>3, <1>4, <1>5 DEF Splits

(* The part the emitter keeps, and the workers' parts behind it.            *)
LEMMA KeptSplits ==
  ASSUME NEW n1 \in Nat, NEW n2 \in Nat, n1 <= n2, NEW m \in Nat \ {0},
         NEW p, \A i \in 0 .. m - 1 : p[i] = Primes!WorkerPart(n1, n2, m, i)
  PROVE  LET k == Primes!EmitterPart(n1, n2, m)
         IN  k \in Parts /\ k[1] = n1 /\ k[2] <= n2 /\ Splits(p, m, k[2], n2)
<1>. DEFINE b == n1 + (n2 - n1) \div (m + 1)
<1>1. b \in Nat /\ n1 <= b /\ b <= n2
  <2>. DEFINE q == (n2 - n1) \div (m + 1)
              r == (n2 - n1) % (m + 1)
  <2>1. q \in Nat /\ r \in 0 .. m /\ n2 - n1 = (m + 1) * q + r
    <3>1. n2 - n1 \in Nat /\ m + 1 \in Nat \ {0} /\ (m + 1) - 1 = m
      OBVIOUS
    <3>. QED BY <3>1, Division
  <2>2. b = n1 + q
    OBVIOUS
  <2>. HIDE DEF q, r, b
  <2>3. (m + 1) * q = m * q + q /\ m * q \in Nat
    BY <2>1
  <2>. QED BY <2>1, <2>2, <2>3
<1>2. Primes!EmitterPart(n1, n2, m) = <<n1, b>>
  BY DEF Primes!EmitterPart
<1>. HIDE DEF b
<1>3. \A i \in 0 .. m - 1 : p[i] = Primes!Part(b, n2, m, i)
  BY <1>2 DEF Primes!WorkerPart
<1>. QED
  BY <1>1, <1>2, <1>3, PartSplits DEF Parts

(* The chunks split a range.                                                *)
LEMMA ChunkSplits ==
  ASSUME NEW n1 \in Nat, NEW n2 \in Nat, n1 <= n2,
         NEW p, \A k \in 0 .. Primes!Chunks(n1, n2) - 1 : p[k] = Primes!Chunk(n1, n2, k)
  PROVE  /\ Primes!Chunks(n1, n2) \in Nat
         /\ Splits(p, Primes!Chunks(n1, n2), n1, n2)
<1>. DEFINE h == chunk
            m == Primes!Chunks(n1, n2)
<1>0. h \in Nat \ {0}
  BY RangesAssumption
<1>. HIDE DEF h
<1>1. m \in Nat /\ \E r \in 0 .. h - 1 : n2 - n1 + h - 1 = h * m + r
  <2>1. n2 - n1 + h - 1 \in Nat /\ m = (n2 - n1 + h - 1) \div h
    BY <1>0 DEF Primes!Chunks, h
  <2>. HIDE DEF m
  <2>2. m \in Nat /\ (n2 - n1 + h - 1) % h \in 0 .. h - 1
        /\ n2 - n1 + h - 1 = h * m + ((n2 - n1 + h - 1) % h)
    BY <1>0, <2>1, Division
  <2>. QED BY <2>2
<1>2. \A k \in 0 .. m - 1 : p[k] = <<n1 + k * h, IF (n1 + k * h) + h < n2 THEN (n1 + k * h) + h ELSE n2>>
  BY DEF Primes!Chunk, h
<1>. HIDE DEF m
(* Chunk k begins before n2.                                                *)
<1>3. ASSUME NEW k \in 0 .. m - 1 PROVE k * h \in Nat /\ n1 + k * h < n2
  <2>1. PICK r \in 0 .. h - 1 : n2 - n1 + h - 1 = h * m + r
    BY <1>1
  <2>2. PICK d \in Nat : m = k + 1 + d
    <3>1. m - k - 1 \in Nat /\ m = k + 1 + (m - k - 1)
      BY <1>1
    <3>. QED BY <3>1
  <2>3. h * m = k * h + h + d * h /\ k * h \in Nat /\ d * h \in Nat
    BY <1>0, <2>2
  <2>. QED BY <1>0, <2>1, <2>3
<1>4. ASSUME NEW k \in 0 .. m - 1
      PROVE  /\ p[k][1] = n1 + k * h /\ p[k][1] \in Nat
             /\ p[k][2] \in Nat /\ p[k][2] <= n2 /\ p[k][2] <= n1 + k * h + h /\ p[k][1] <= p[k][2]
             /\ p[k][2] = n2 \/ p[k][2] = n1 + k * h + h
             /\ p[k] \in Nat \X Nat
  <2>. DEFINE f == k * h
  <2>1. f \in Nat /\ n1 + f < n2
    BY <1>3
  <2>2. p[k] = <<n1 + f, IF (n1 + f) + h < n2 THEN (n1 + f) + h ELSE n2>>
    BY <1>2
  <2>. HIDE DEF f
  <2>3. CASE (n1 + f) + h < n2
    BY <1>0, <2>1, <2>2, <2>3 DEF f
  <2>4. CASE ~((n1 + f) + h < n2)
    BY <1>0, <2>1, <2>2, <2>4 DEF f
  <2>. QED BY <2>3, <2>4
<1>5. ASSUME NEW i \in 0 .. m - 1, NEW j \in 0 .. m - 1, i < j PROVE p[i][2] <= p[j][1]
  <2>1. PICK d \in Nat : j = i + 1 + d
    <3>1. j - i - 1 \in Nat /\ j = i + 1 + (j - i - 1)
      BY <1>5
    <3>. QED BY <3>1
  <2>2. j * h = i * h + h + d * h /\ i * h \in Nat /\ d * h \in Nat
    BY <1>0, <2>1
  <2>3. p[i][2] <= n1 + i * h + h /\ p[j][1] = n1 + j * h /\ p[i][2] \in Nat
    BY <1>4
  <2>. QED BY <1>0, <2>2, <2>3
<1>6. ASSUME NEW x \in n1 .. n2 - 1 PROVE \E k \in 0 .. m - 1 : x \in Numbers(p[k])
  <2>. DEFINE k == (x - n1) \div h
  <2>1. /\ k \in Nat /\ (x - n1) % h \in 0 .. h - 1 /\ x - n1 = h * k + ((x - n1) % h)
    <3>1. x - n1 \in Nat
      OBVIOUS
    <3>. QED BY <1>0, <3>1, Division
  <2>. HIDE DEF k
  <2>2. PICK s \in 0 .. h - 1 : x - n1 = h * k + s
    BY <2>1
  <2>3. h * k \in Nat /\ h * k = k * h
    BY <1>0, <2>1
  <2>4. k < m
    <3>1. SUFFICES ASSUME m <= k PROVE FALSE
      BY <1>1, <2>1
    <3>2. PICK d \in Nat : k = m + d
      <4>1. k - m \in Nat /\ k = m + (k - m)
        BY <1>1, <2>1, <3>1
      <4>. QED BY <4>1
    <3>3. h * k = h * m + h * d /\ h * m \in Nat /\ h * d \in Nat
      BY <1>0, <1>1, <3>2
    <3>4. PICK r \in 0 .. h - 1 : n2 - n1 + h - 1 = h * m + r
      BY <1>1
    <3>. QED BY <1>0, <2>2, <3>3, <3>4
  <2>5. k \in 0 .. m - 1
    BY <1>1, <2>1, <2>4
  <2>6. p[k][1] = n1 + k * h /\ p[k][2] \in Nat /\ (p[k][2] = n2 \/ p[k][2] = n1 + k * h + h)
    BY <1>4, <2>5
  <2>7. n1 + k * h <= x /\ x < n1 + k * h + h /\ x < n2
    BY <1>0, <2>2, <2>3
  <2>8. x \in Numbers(p[k])
    BY <1>0, <2>3, <2>6, <2>7 DEF Numbers
  <2>. QED BY <2>5, <2>8
<1>7. ASSUME NEW i \in 0 .. m - 1 PROVE p[i] \in Parts /\ n1 <= p[i][1] /\ p[i][2] <= n2
  BY <1>3, <1>4 DEF Parts
<1>8. Splits(p, m, n1, n2)
  BY <1>5, <1>6, <1>7 DEF Splits
<1>. QED
  BY <1>1, <1>8 DEF m

-----------------------------------------------------------------------------
(* Where the numbers of the range are.  Of worker w: those of the parts     *)
(* that wait for it, and the primes it has found.                           *)
Ahead(w) == UNION {Numbers(p) : p \in todo[w]}
Seen(w) == Primes!ToSet(found[w])
Has(w) == Ahead(w) \cup Seen(w)

(* What an L-Worker or the emitter has not sent, and what the emitter keeps *)
UnsentPart(l) ==
  IF run.program = "primes_a2a" THEN Primes!Part(run.n1, run.n2, run.nw, l) ELSE <<run.n1, run.n2>>
KeptPart == Primes!EmitterPart(run.n1, run.n2, Primes!Cardinality(Primes!Worker))
Kept == IF Primes!Farm /\ senders = {} THEN Numbers(KeptPart) ELSE {}

Range1 == run.n1 .. run.behind - 1

RunTypes ==
  /\ run.program \in Primes!Programs
  /\ run.n1 \in Nat /\ run.n2 \in Nat /\ run.n1 <= run.n2 /\ run.nw \in Nat \ {0}
  /\ run.behind \in {run.n2, run.n2 + 1}
  /\ run.program = "primes_a2a" => run.behind = run.n2
  /\ Primes!Farm => run.behind = run.n2

PrimeTypes ==
  /\ \E m \in Nat \ {0} : DOMAIN todo = 0 .. m - 1
  /\ DOMAIN found = DOMAIN todo
  /\ \A w \in DOMAIN todo : todo[w] \subseteq Parts /\ found[w] \in Seq(Nat)
  /\ chunks \in Seq(Parts)
  /\ joined \subseteq DOMAIN todo /\ results \in Seq(Nat)
  /\ main \in {"running", "joining", "end"}

(* No number is in two places.                                              *)
ApartInv ==
  /\ \A w \in DOMAIN todo :
       /\ Ahead(w) \cap Seen(w) = {}
       /\ \A p, q \in todo[w] : p # q => Numbers(p) \cap Numbers(q) = {}
       /\ \A v \in DOMAIN todo : v # w => Has(v) \cap Has(w) = {}
       /\ \A k \in 1 .. Len(chunks) : Numbers(chunks[k]) \cap Has(w) = {}
       /\ \A l \in senders : Numbers(UnsentPart(l)) \cap Has(w) = {}
       /\ Kept \cap Has(w) = {}
  /\ \A j, k \in 1 .. Len(chunks) : j # k => Numbers(chunks[j]) \cap Numbers(chunks[k]) = {}

(* All are in the range, and every prime of the range is somewhere.         *)
WithinInv ==
  /\ \A w \in DOMAIN todo : Has(w) \subseteq Range1
  /\ \A k \in 1 .. Len(chunks) : Numbers(chunks[k]) \subseteq Range1

CoverInv ==
  \A n \in Range1 : Primes!is_prime(n) =>
    \/ n \in Kept
    \/ \E w \in DOMAIN todo : n \in Has(w)
    \/ \E k \in 1 .. Len(chunks) : n \in Numbers(chunks[k])
    \/ \E l \in senders : n \in Numbers(UnsentPart(l))

(* A worker has found primes only, once.                                    *)
FoundInv ==
  \A w \in DOMAIN todo : Once(found[w]) /\ \A x \in Seen(w) : Primes!is_prime(x)

(* Who still hands out parts, and when the results are put together.        *)
MainInv ==
  /\ senders # {} => run.program = "primes_a2a" \/ Primes!Farm
  /\ run.program = "primes_a2a" => senders \subseteq 0 .. run.nw - 1
  /\ Primes!Farm /\ senders # {} => \A w \in DOMAIN todo : todo[w] = {} /\ found[w] = <<>>
  /\ chunks # <<>> => run.program \in {"primes_omp_dynamic", "primes_parallelfor_dynamic"}
  /\ main = "running" => joined = {} /\ results = <<>>
  /\ main # "running" => senders = {}
  /\ main = "end" => joined = DOMAIN todo
  /\ \A w \in joined : todo[w] = {} /\ chunks = <<>>

(* What the results have: the primes of the emitter, and those of the       *)
(* workers joined.                                                          *)
Joined ==
  (IF Primes!Farm THEN {n \in Numbers(KeptPart) : Primes!is_prime(n)} ELSE {})
    \cup UNION {Seen(w) : w \in joined}
ResultInv == main # "running" => Once(results) /\ Primes!ToSet(results) = Joined

(* The programs that do not sort have a part for each worker, the workers'  *)
(* parts in order, and put every worker's primes where they belong.         *)
InPlace == ~Primes!MustSort /\ run.program # "primes_omp_chunk"
InRowInv ==
  InPlace =>
    /\ \A w \in DOMAIN todo :
         /\ Primes!Sorted(found[w])
         /\ found[w] = <<>> \/ todo[w] = {}
         /\ \A p, q \in todo[w] : p = q
         /\ senders # {} => todo[w] = {} /\ found[w] = <<>>
         /\ \A v \in DOMAIN todo : v < w => \A x \in Has(v) : \A y \in Has(w) : x < y
         /\ \A x \in Kept : \A y \in Has(w) : x < y
    /\ ~Primes!Farm => \A w \in joined : \A v \in DOMAIN todo : v < w => v \in joined
    /\ Primes!Sorted(results)
SortedInv ==
  main = "end" /\ run.program # "primes_omp_chunk" => Primes!Sorted(results)

PrimeParts ==
  RunTypes /\ PrimeTypes /\ ApartInv /\ WithinInv /\ CoverInv /\ FoundInv /\ MainInv
    /\ ResultInv /\ InRowInv /\ SortedInv

(* What does not change while a program runs.                               *)
LEMMA SameRun ==
  ASSUME run' = run, DOMAIN todo' = DOMAIN todo
  PROVE  /\ Primes!Farm' = Primes!Farm /\ Primes!MustSort' = Primes!MustSort
         /\ KeptPart' = KeptPart /\ Range1' = Range1
         /\ \A l : UnsentPart(l)' = UnsentPart(l)
         /\ InPlace' = InPlace
         /\ RunTypes' = RunTypes
<1>1. Primes!Farm' = Primes!Farm /\ Primes!MustSort' = Primes!MustSort /\ Range1' = Range1
  BY DEF Primes!Farm, Primes!MustSort, Range1
<1>2. KeptPart' = KeptPart
  BY DEF KeptPart, Primes!Worker
<1>3. \A l : UnsentPart(l)' = UnsentPart(l)
  BY DEF UnsentPart
<1>4. InPlace' = InPlace
  BY <1>1 DEF InPlace
<1>5. RunTypes' = RunTypes
  BY <1>1 DEF RunTypes
<1>. QED
  BY <1>1, <1>2, <1>3, <1>4, <1>5

(* The emitter keeps the first part.                                        *)
LEMMA KeptFacts ==
  ASSUME RunTypes, PrimeTypes
  PROVE  \E m \in Nat \ {0} :
           /\ DOMAIN todo = 0 .. m - 1
           /\ Primes!Cardinality(Primes!Worker) = m
           /\ KeptPart = Primes!EmitterPart(run.n1, run.n2, m)
           /\ KeptPart \in Parts /\ KeptPart[1] = run.n1 /\ KeptPart[2] <= run.n2
           /\ \A p : (\A i \in 0 .. m - 1 : p[i] = Primes!WorkerPart(run.n1, run.n2, m, i))
                => Splits(p, m, KeptPart[2], run.n2)
<1>1. PICK m \in Nat \ {0} : DOMAIN todo = 0 .. m - 1
  BY DEF PrimeTypes
<1>2. Cardinality(0 .. m - 1) = m
  <2>1. Cardinality(0 .. m - 1) = IF 0 > m - 1 THEN 0 ELSE m - 1 - 0 + 1
    BY FS_Interval
  <2>. QED BY <2>1
<1>7. Primes!Cardinality(Primes!Worker) = m
  BY <1>1, <1>2, PrimesCardinality DEF Primes!Worker
<1>3. KeptPart = Primes!EmitterPart(run.n1, run.n2, m)
  BY <1>7 DEF KeptPart
<1>4. run.n1 \in Nat /\ run.n2 \in Nat /\ run.n1 <= run.n2
  BY DEF RunTypes
<1>5. KeptPart \in Parts /\ KeptPart[1] = run.n1 /\ KeptPart[2] <= run.n2
  <2>. DEFINE a == run.n1
              b == run.n2
              q == [j \in 0 .. m - 1 |-> Primes!WorkerPart(a, b, m, j)]
              k == Primes!EmitterPart(a, b, m)
  <2>1. \A i \in 0 .. m - 1 : q[i] = Primes!WorkerPart(a, b, m, i)
    OBVIOUS
  <2>2. a \in Nat /\ b \in Nat /\ a <= b
    BY <1>4
  <2>. HIDE DEF a, b, q
  <2>3. k \in Parts /\ k[1] = a /\ k[2] <= b
    BY <2>1, <2>2, KeptSplits
  <2>. QED BY <1>3, <2>3 DEF a, b
<1>6. ASSUME NEW p, \A i \in 0 .. m - 1 : p[i] = Primes!WorkerPart(run.n1, run.n2, m, i)
      PROVE  Splits(p, m, KeptPart[2], run.n2)
  BY <1>3, <1>4, <1>6, KeptSplits
<1>. QED
  BY <1>1, <1>3, <1>5, <1>6, <1>7

(* A worker searches a part: it has seen its primes.                        *)
LEMMA SearchHas ==
  ASSUME PrimeTypes, ApartInv, NEW w \in DOMAIN todo, NEW p \in todo[w],
         todo' = [todo EXCEPT ![w] = @ \ {p}],
         found' = [found EXCEPT ![w] = @ \o Primes!PrimesIn(p)]
  PROVE  /\ \A v \in DOMAIN todo : v # w =>
              Ahead(v)' = Ahead(v) /\ Seen(v)' = Seen(v) /\ Has(v)' = Has(v)
         /\ Ahead(w)' = Ahead(w) \ Numbers(p)
         /\ Seen(w)' = Seen(w) \cup {n \in Numbers(p) : Primes!is_prime(n)}
         /\ Numbers(p) \subseteq Ahead(w)
         /\ Once(found[w]) => Once(found'[w])
<1>1. p \in Parts /\ found[w] \in Seq(Nat) /\ DOMAIN found = DOMAIN todo
  BY DEF PrimeTypes
<1>. DEFINE s == Primes!PrimesIn(p)
<1>2. s \in Seq(Nat) /\ Once(s) /\ Primes!ToSet(s) = {n \in Numbers(p) : Primes!is_prime(n)}
  BY <1>1, PrimesInFacts
<1>. HIDE DEF s
<1>3. todo'[w] = todo[w] \ {p} /\ found'[w] = found[w] \o s
      /\ \A v \in DOMAIN todo : v # w => todo'[v] = todo[v] /\ found'[v] = found[v]
  BY <1>1 DEF s
<1>4. \A v \in DOMAIN todo : v # w =>
        Ahead(v)' = Ahead(v) /\ Seen(v)' = Seen(v) /\ Has(v)' = Has(v)
  BY <1>3 DEF Ahead, Seen, Has
<1>5. Numbers(p) \subseteq Ahead(w)
  BY DEF Ahead
<1>6. Ahead(w)' = Ahead(w) \ Numbers(p)
  <2>1. \A q \in todo[w] : q # p => Numbers(q) \cap Numbers(p) = {}
    BY DEF ApartInv
  <2>2. Ahead(w)' = UNION {Numbers(q) : q \in todo[w] \ {p}}
    BY <1>3 DEF Ahead
  <2>. QED BY <2>1, <2>2 DEF Ahead
<1>7. Len(found[w]) \in 0 .. Len(found[w])
  BY <1>1
<1>8. Spliced(found[w] \o s, found[w], s, Len(found[w]))
  BY <1>1, <1>2, SpliceBehind
<1>9. /\ Primes!ToSet(found[w] \o s) = Primes!ToSet(found[w]) \cup Primes!ToSet(s)
      /\ Once(found[w]) /\ Once(s) /\ Primes!ToSet(found[w]) \cap Primes!ToSet(s) = {}
           => Once(found[w] \o s)
  BY <1>1, <1>2, <1>7, <1>8, SplicedSet
<1>10. Seen(w)' = Seen(w) \cup {n \in Numbers(p) : Primes!is_prime(n)}
  BY <1>2, <1>3, <1>9 DEF Seen
<1>11. Primes!ToSet(found[w]) \cap Primes!ToSet(s) = {}
  <2>1. Ahead(w) \cap Seen(w) = {}
    BY DEF ApartInv
  <2>. QED BY <1>2, <1>5, <2>1 DEF Seen
<1>. QED
  BY <1>2, <1>3, <1>4, <1>5, <1>6, <1>9, <1>10, <1>11

(* A worker searches one of its parts: its primes are found, in order.      *)
LEMMA SearchStep ==
  ASSUME PrimeParts, NEW w \in DOMAIN todo, Primes!Search(w)
  PROVE  PrimeParts'
<1>0. /\ RunTypes /\ PrimeTypes /\ ApartInv /\ WithinInv /\ CoverInv /\ FoundInv /\ MainInv
      /\ ResultInv /\ InRowInv /\ SortedInv
  BY DEF PrimeParts
<1>1. PICK p \in todo[w] : /\ todo' = [todo EXCEPT ![w] = @ \ {p}]
                           /\ found' = [found EXCEPT ![w] = @ \o Primes!PrimesIn(p)]
  BY DEF Primes!Search
<1>2. UNCHANGED <<run, senders, chunks, joined, results, main>>
  BY DEF Primes!Search
<1>3. DOMAIN todo' = DOMAIN todo /\ DOMAIN found' = DOMAIN todo
  BY <1>0, <1>1 DEF PrimeTypes
<1>4. /\ Primes!Farm' = Primes!Farm /\ KeptPart' = KeptPart /\ Range1' = Range1
      /\ (\A l : UnsentPart(l)' = UnsentPart(l)) /\ InPlace' = InPlace /\ RunTypes'
  BY <1>0, <1>2, <1>3, SameRun
<1>5. Kept' = Kept
  BY <1>2, <1>4 DEF Kept
<1>6. /\ \A v \in DOMAIN todo : v # w =>
           Ahead(v)' = Ahead(v) /\ Seen(v)' = Seen(v) /\ Has(v)' = Has(v)
      /\ Ahead(w)' = Ahead(w) \ Numbers(p)
      /\ Seen(w)' = Seen(w) \cup {n \in Numbers(p) : Primes!is_prime(n)}
      /\ Numbers(p) \subseteq Ahead(w)
      /\ Once(found'[w])
  BY <1>0, <1>1, SearchHas DEF FoundInv
<1>7. \A v \in DOMAIN todo : Has(v)' \subseteq Has(v)
                             /\ \A n \in Has(v) : Primes!is_prime(n) => n \in Has(v)'
  BY <1>6 DEF Has
<1>8. /\ todo'[w] = todo[w] \ {p} /\ found'[w] = found[w] \o Primes!PrimesIn(p)
      /\ \A v \in DOMAIN todo : v # w => todo'[v] = todo[v] /\ found'[v] = found[v]
  BY <1>0, <1>1 DEF PrimeTypes
<1>9. p \in Parts /\ found[w] \in Seq(Nat)
  BY <1>0 DEF PrimeTypes
<1>10. /\ Primes!PrimesIn(p) \in Seq(Nat) /\ Primes!Sorted(Primes!PrimesIn(p))
       /\ found'[w] \in Seq(Nat)
  BY <1>8, <1>9, PrimesInFacts, ConcatType
<1>11. PrimeTypes'
  BY <1>0, <1>2, <1>3, <1>8, <1>10 DEF PrimeTypes
<1>12. ApartInv'
  <2>1. \A v \in DOMAIN todo : Ahead(v)' \cap Seen(v)' = {}
    BY <1>0, <1>6 DEF ApartInv
  <2>2. \A v \in DOMAIN todo : \A q, r \in todo'[v] : q # r => Numbers(q) \cap Numbers(r) = {}
    BY <1>0, <1>8 DEF ApartInv
  <2>3. \A u, v \in DOMAIN todo : u # v => Has(u)' \cap Has(v)' = {}
    BY <1>0, <1>7 DEF ApartInv
  <2>4. \A v \in DOMAIN todo : /\ \A k \in 1 .. Len(chunks) : Numbers(chunks[k]) \cap Has(v)' = {}
                               /\ \A l \in senders : Numbers(UnsentPart(l)) \cap Has(v)' = {}
                               /\ Kept \cap Has(v)' = {}
    BY <1>0, <1>7 DEF ApartInv
  <2>5. \A j, k \in 1 .. Len(chunks) : j # k => Numbers(chunks[j]) \cap Numbers(chunks[k]) = {}
    BY <1>0 DEF ApartInv
  <2>. QED BY <1>2, <1>3, <1>4, <1>5, <2>1, <2>2, <2>3, <2>4, <2>5 DEF ApartInv
<1>13. WithinInv'
  BY <1>0, <1>2, <1>3, <1>4, <1>7 DEF WithinInv
<1>14. CoverInv'
  BY <1>0, <1>2, <1>3, <1>4, <1>5, <1>7 DEF CoverInv
<1>15. FoundInv'
  BY <1>0, <1>3, <1>6, <1>8 DEF FoundInv
<1>16. w \notin joined /\ ~(Primes!Farm /\ senders # {})
  BY <1>0 DEF MainInv
<1>17. MainInv'
  <2>1. \A v \in joined : todo'[v] = {} /\ chunks = <<>>
    <3>1. \A v \in joined : v \in DOMAIN todo /\ v # w
      BY <1>0, <1>16 DEF PrimeTypes
    <3>. QED BY <1>0, <1>8, <3>1 DEF MainInv
  <2>. QED BY <1>0, <1>2, <1>3, <1>4, <1>16, <2>1 DEF MainInv
<1>18. ResultInv'
  <2>1. \A v \in joined : v # w /\ v \in DOMAIN todo
    BY <1>0, <1>16 DEF PrimeTypes
  <2>2. Joined' = Joined
    BY <1>2, <1>4, <1>6, <2>1 DEF Joined
  <2>. QED BY <1>0, <1>2, <2>2 DEF ResultInv
<1>19. InRowInv'
  <2>1. SUFFICES ASSUME InPlace PROVE InRowInv'
    BY <1>4 DEF InRowInv
  <2>2. found[w] = <<>> /\ todo'[w] = {} /\ senders = {}
    BY <1>0, <1>8, <2>1 DEF InRowInv
  <2>3. found'[w] = Primes!PrimesIn(p)
    <3>1. \A s \in Seq(Nat) : <<>> \o s = s
      OBVIOUS
    <3>. QED BY <1>8, <1>10, <2>2, <3>1
  <2>4. /\ \A v \in DOMAIN todo : v # w =>
             /\ Primes!Sorted(found'[v])
             /\ found'[v] = <<>> \/ todo'[v] = {}
             /\ \A q, r \in todo'[v] : q = r
    BY <1>0, <1>8, <2>1 DEF InRowInv
  <2>5. \A u, v \in DOMAIN todo : u < v => \A x \in Has(u)' : \A y \in Has(v)' : x < y
    BY <1>0, <1>7, <2>1 DEF InRowInv
  <2>6. \A v \in DOMAIN todo : \A x \in Kept : \A y \in Has(v)' : x < y
    BY <1>0, <1>7, <2>1 DEF InRowInv
  <2>7. ~Primes!Farm => \A v \in joined : \A u \in DOMAIN todo : u < v => u \in joined
    BY <1>0, <2>1 DEF InRowInv
  <2>8. Primes!Sorted(results)
    BY <1>0, <2>1 DEF InRowInv
  <2>9. \A v \in DOMAIN todo : /\ Primes!Sorted(found'[v])
                               /\ found'[v] = <<>> \/ todo'[v] = {}
                               /\ \A q, r \in todo'[v] : q = r
    BY <1>10, <2>2, <2>3, <2>4
  <2>. QED BY <1>2, <1>3, <1>4, <1>5, <2>2, <2>5, <2>6, <2>7, <2>8, <2>9 DEF InRowInv
<1>20. SortedInv'
  BY <1>0, <1>2 DEF SortedInv
<1>. QED
  BY <1>4, <1>11, <1>12, <1>13, <1>14, <1>15, <1>17, <1>18, <1>19, <1>20 DEF PrimeParts

(* A worker takes the first chunk.                                          *)
LEMMA TakeChunkStep ==
  ASSUME PrimeParts, NEW w \in DOMAIN todo, Primes!TakeChunk(w)
  PROVE  PrimeParts'
<1>0. /\ RunTypes /\ PrimeTypes /\ ApartInv /\ WithinInv /\ CoverInv /\ FoundInv /\ MainInv
      /\ ResultInv /\ InRowInv /\ SortedInv
  BY DEF PrimeParts
<1>1. /\ todo[w] = {} /\ chunks # <<>> /\ chunks \in Seq(Parts)
      /\ todo' = [todo EXCEPT ![w] = {Head(chunks)}] /\ chunks' = Tail(chunks)
  BY <1>0 DEF Primes!TakeChunk, PrimeTypes
<1>2. UNCHANGED <<run, senders, found, joined, results, main>>
  BY DEF Primes!TakeChunk
<1>3. DOMAIN todo' = DOMAIN todo /\ DOMAIN found = DOMAIN todo
  BY <1>0, <1>1 DEF PrimeTypes
<1>4. /\ Primes!Farm' = Primes!Farm /\ KeptPart' = KeptPart /\ Range1' = Range1
      /\ (\A l : UnsentPart(l)' = UnsentPart(l)) /\ InPlace' = InPlace /\ RunTypes'
  BY <1>0, <1>2, <1>3, SameRun
<1>5. Kept' = Kept
  BY <1>2, <1>4 DEF Kept
<1>6. /\ 1 \in 1 .. Len(chunks) /\ Head(chunks) = chunks[1] /\ chunks[1] \in Parts
      /\ chunks' \in Seq(Parts)
      /\ \A k \in 1 .. Len(chunks') : k + 1 \in 1 .. Len(chunks) /\ chunks'[k] = chunks[k + 1]
      /\ \A k \in 1 .. Len(chunks) : k # 1 => k - 1 \in 1 .. Len(chunks') /\ chunks'[k - 1] = chunks[k]
  BY <1>1
<1>. DEFINE c == chunks[1]
<1>7. todo'[w] = {c} /\ \A v \in DOMAIN todo : v # w => todo'[v] = todo[v]
  BY <1>1, <1>6
<1>8. /\ \A v \in DOMAIN todo : v # w =>
           Ahead(v)' = Ahead(v) /\ Seen(v)' = Seen(v) /\ Has(v)' = Has(v)
      /\ Ahead(w)' = Numbers(c) /\ Seen(w)' = Seen(w) /\ Has(w)' = Has(w) \cup Numbers(c)
  <2>1. Ahead(w) = {} /\ Ahead(w)' = Numbers(c)
    BY <1>1, <1>7 DEF Ahead
  <2>. QED BY <1>2, <1>7, <2>1 DEF Ahead, Seen, Has
<1>9. PrimeTypes'
  <2>1. \A v \in DOMAIN todo : todo'[v] \subseteq Parts /\ found'[v] \in Seq(Nat)
    <3>1. \A v \in DOMAIN todo : todo[v] \subseteq Parts /\ found[v] \in Seq(Nat)
      BY <1>0 DEF PrimeTypes
    <3>2. c \in Parts
      BY <1>6
    <3>. HIDE DEF c
    <3>. QED BY <1>2, <1>7, <3>1, <3>2
  <2>2. chunks' \in Seq(Parts)
    BY <1>6
  <2>. HIDE DEF c
  <2>. QED BY <1>0, <1>2, <1>3, <2>1, <2>2 DEF PrimeTypes
<1>10. ApartInv'
  <2>0. \A k \in 1 .. Len(chunks') : /\ Numbers(chunks'[k]) \cap Numbers(c) = {}
                                     /\ \A v \in DOMAIN todo : Numbers(chunks'[k]) \cap Has(v) = {}
    <3>1. \A k \in 1 .. Len(chunks') : k + 1 \in 1 .. Len(chunks) /\ k + 1 # 1 /\ chunks'[k] = chunks[k + 1]
      BY <1>6
    <3>. QED BY <1>0, <1>6, <3>1 DEF ApartInv
  <2>1. \A v \in DOMAIN todo : Ahead(v)' \cap Seen(v)' = {}
    <3>1. Numbers(c) \cap Seen(w) = {}
      BY <1>0, <1>6 DEF ApartInv, Has
    <3>. QED BY <1>0, <1>8, <3>1 DEF ApartInv
  <2>2. \A v \in DOMAIN todo : \A q, r \in todo'[v] : q # r => Numbers(q) \cap Numbers(r) = {}
    BY <1>0, <1>7 DEF ApartInv
  <2>3. \A u, v \in DOMAIN todo : u # v => Has(u)' \cap Has(v)' = {}
    <3>1. \A v \in DOMAIN todo : Numbers(c) \cap Has(v) = {}
      BY <1>0, <1>6 DEF ApartInv
    <3>2. \A u, v \in DOMAIN todo : u # v => Has(u) \cap Has(v) = {}
      BY <1>0 DEF ApartInv
    <3>. QED BY <1>8, <3>1, <3>2
  <2>4. \A v \in DOMAIN todo : \A k \in 1 .. Len(chunks') : Numbers(chunks'[k]) \cap Has(v)' = {}
    BY <1>8, <2>0
  <2>5. senders = {} /\ Kept = {}
    BY <1>0, <1>1 DEF MainInv, Kept, Primes!Farm
  <2>6. \A j, k \in 1 .. Len(chunks') : j # k => Numbers(chunks'[j]) \cap Numbers(chunks'[k]) = {}
    <3>1. \A j, k \in 1 .. Len(chunks) : j # k => Numbers(chunks[j]) \cap Numbers(chunks[k]) = {}
      BY <1>0 DEF ApartInv
    <3>2. SUFFICES ASSUME NEW j \in 1 .. Len(chunks'), NEW k \in 1 .. Len(chunks'), j # k
                   PROVE  Numbers(chunks'[j]) \cap Numbers(chunks'[k]) = {}
      OBVIOUS
    <3>3. j + 1 \in 1 .. Len(chunks) /\ k + 1 \in 1 .. Len(chunks)
          /\ chunks'[j] = chunks[j + 1] /\ chunks'[k] = chunks[k + 1]
      BY <1>6
    <3>4. j + 1 # k + 1
      BY <3>2
    <3>. QED BY <3>1, <3>3, <3>4
  <2>. HIDE DEF c
  <2>. QED BY <1>2, <1>3, <1>5, <2>1, <2>2, <2>3, <2>4, <2>5, <2>6 DEF ApartInv
<1>11. WithinInv'
  <2>1. \A v \in DOMAIN todo : Has(v)' \subseteq Range1
    BY <1>0, <1>6, <1>8 DEF WithinInv
  <2>2. \A k \in 1 .. Len(chunks') : Numbers(chunks'[k]) \subseteq Range1
    BY <1>0, <1>6 DEF WithinInv
  <2>. QED BY <1>3, <1>4, <2>1, <2>2 DEF WithinInv
<1>12. CoverInv'
  <2>1. \A v \in DOMAIN todo : Has(v) \subseteq Has(v)'
    BY <1>8
  <2>2. ASSUME NEW n, NEW k \in 1 .. Len(chunks), n \in Numbers(chunks[k])
        PROVE  n \in Has(w)' \/ \E j \in 1 .. Len(chunks') : n \in Numbers(chunks'[j])
    <3>1. CASE k = 1
      BY <1>8, <2>2, <3>1
    <3>2. CASE k # 1
      BY <1>6, <2>2, <3>2
    <3>. QED BY <3>1, <3>2
  <2>. QED BY <1>0, <1>2, <1>3, <1>4, <1>5, <2>1, <2>2 DEF CoverInv
<1>13. FoundInv'
  BY <1>0, <1>2, <1>3 DEF FoundInv, Seen
<1>14. joined = {}
  BY <1>0, <1>1 DEF MainInv
<1>15. senders = {} /\ run.program \in {"primes_omp_dynamic", "primes_parallelfor_dynamic"}
  BY <1>0, <1>1 DEF MainInv, Primes!Farm
<1>16. main # "end"
  BY <1>0, <1>14 DEF MainInv, PrimeTypes
<1>17. MainInv'
  BY <1>0, <1>2, <1>3, <1>4, <1>14, <1>15, <1>16 DEF MainInv
<1>18. ResultInv'
  <2>1. Joined' = Joined
    BY <1>2, <1>4, <1>14 DEF Joined
  <2>. QED BY <1>0, <1>2, <2>1 DEF ResultInv
<1>19. InRowInv' /\ SortedInv'
  <2>1. ~InPlace
    BY <1>15 DEF InPlace, Primes!MustSort
  <2>. QED BY <1>2, <1>4, <1>16, <2>1 DEF InRowInv, SortedInv
<1>. QED
  BY <1>4, <1>9, <1>10, <1>11, <1>12, <1>13, <1>17, <1>18, <1>19 DEF PrimeParts

(* Parts are sent to the workers: of an L-Worker's part, or of the farm's.  *)
LEMMA SentHas ==
  ASSUME NEW p, \A v \in DOMAIN todo : todo'[v] = todo[v] \cup {p[v]},
         DOMAIN todo' = DOMAIN todo, found' = found
  PROVE  \A v \in DOMAIN todo : /\ Ahead(v)' = Ahead(v) \cup Numbers(p[v])
                                /\ Seen(v)' = Seen(v) /\ Has(v)' = Has(v) \cup Numbers(p[v])
<1>1. \A v \in DOMAIN todo : Ahead(v)' = Ahead(v) \cup Numbers(p[v])
  BY DEF Ahead
<1>2. \A v \in DOMAIN todo : Seen(v)' = Seen(v)
  BY DEF Seen
<1>. QED
  BY <1>1, <1>2 DEF Has

(* p splits R into parts of which nobody has a number.                      *)
Send(p, m, a, b) ==
  /\ PrimeTypes /\ ApartInv /\ chunks = <<>> /\ DOMAIN todo = 0 .. m - 1
  /\ Splits(p, m, a, b)
  /\ \A v \in DOMAIN todo : todo'[v] = todo[v] \cup {p[v]}
  /\ \A v \in DOMAIN todo : (a .. b - 1) \cap Has(v) = {}
  /\ \A l \in senders' : /\ Numbers(UnsentPart(l)') \cap (a .. b - 1) = {}
                         /\ (l \in senders /\ UnsentPart(l)' = UnsentPart(l))
  /\ Kept' \cap (a .. b - 1) = {} /\ \A v \in DOMAIN todo : Kept' \cap Has(v) = {}
  /\ DOMAIN todo' = DOMAIN todo /\ found' = found /\ chunks' = chunks

(* The parts sent are disjoint from those that were there.                  *)
LEMMA SentApart ==
  ASSUME NEW m \in Nat, NEW p, NEW a \in Nat, NEW b \in Nat, Send(p, m, a, b)
  PROVE  ApartInv'
<1>0. /\ PrimeTypes /\ ApartInv /\ chunks = <<>> /\ DOMAIN todo = 0 .. m - 1
      /\ Splits(p, m, a, b)
      /\ \A v \in DOMAIN todo : todo'[v] = todo[v] \cup {p[v]}
      /\ \A v \in DOMAIN todo : (a .. b - 1) \cap Has(v) = {}
      /\ \A l \in senders' : /\ Numbers(UnsentPart(l)') \cap (a .. b - 1) = {}
                             /\ (l \in senders /\ UnsentPart(l)' = UnsentPart(l))
      /\ Kept' \cap (a .. b - 1) = {} /\ \A v \in DOMAIN todo : Kept' \cap Has(v) = {}
      /\ DOMAIN todo' = DOMAIN todo /\ found' = found /\ chunks' = chunks
  BY DEF Send
<1>1. \A v \in DOMAIN todo : /\ Ahead(v)' = Ahead(v) \cup Numbers(p[v])
                             /\ Seen(v)' = Seen(v) /\ Has(v)' = Has(v) \cup Numbers(p[v])
  BY <1>0, SentHas
<1>2. \A v \in DOMAIN todo : Numbers(p[v]) \subseteq a .. b - 1
  BY <1>0, SplitApart
<1>3. \A u, v \in DOMAIN todo : u # v => Numbers(p[u]) \cap Numbers(p[v]) = {}
  BY <1>0, SplitApart
<1>. DEFINE R == a .. b - 1
<1>. HIDE DEF R
<1>4. \A v \in DOMAIN todo : Numbers(p[v]) \subseteq R /\ R \cap Has(v) = {} /\ Kept' \cap Has(v) = {}
  BY <1>0, <1>2 DEF R
<1>5. \A l \in senders' : Numbers(UnsentPart(l)') \cap R = {} /\ l \in senders /\ UnsentPart(l)' = UnsentPart(l)
  BY <1>0 DEF R
<1>6. Kept' \cap R = {}
  BY <1>0 DEF R
<1>7. \A v \in DOMAIN todo : Ahead(v)' \cap Seen(v)' = {}
  <2>1. \A v \in DOMAIN todo : Ahead(v) \cap Seen(v) = {} /\ Seen(v) \subseteq Has(v)
    BY <1>0 DEF ApartInv, Has
  <2>. QED BY <1>1, <1>4, <2>1
<1>8. ASSUME NEW v \in DOMAIN todo, NEW q \in todo'[v], NEW r \in todo'[v], q # r
      PROVE  Numbers(q) \cap Numbers(r) = {}
  <2>1. \A x \in todo[v] : Numbers(x) \subseteq Has(v)
    BY DEF Has, Ahead
  <2>2. \A x, y \in todo[v] : x # y => Numbers(x) \cap Numbers(y) = {}
    BY <1>0 DEF ApartInv
  <2>3. todo'[v] = todo[v] \cup {p[v]}
    BY <1>0
  <2>. QED BY <1>4, <1>8, <2>1, <2>2, <2>3
<1>9. \A u, v \in DOMAIN todo : u # v => Has(u)' \cap Has(v)' = {}
  <2>1. \A u, v \in DOMAIN todo : u # v => Has(u) \cap Has(v) = {}
    BY <1>0 DEF ApartInv
  <2>. QED BY <1>1, <1>3, <1>4, <2>1
<1>10. \A v \in DOMAIN todo : \A l \in senders' : Numbers(UnsentPart(l)') \cap Has(v)' = {}
  <2>1. \A v \in DOMAIN todo : \A l \in senders : Numbers(UnsentPart(l)) \cap Has(v) = {}
    BY <1>0 DEF ApartInv
  <2>. QED BY <1>1, <1>4, <1>5, <2>1
<1>11. \A v \in DOMAIN todo : Kept' \cap Has(v)' = {}
  BY <1>1, <1>4, <1>6
<1>12. \A k \in 1 .. Len(chunks') : FALSE
  BY <1>0
<1>. QED
  BY <1>0, <1>7, <1>8, <1>9, <1>10, <1>11, <1>12 DEF ApartInv

(* A sender of the all-to-all splits its part among the workers.            *)
LEMMA L_WorkerStep ==
  ASSUME PrimeParts, NEW l \in senders, Primes!L_Worker(l)
  PROVE  PrimeParts'
<1>0. /\ RunTypes /\ PrimeTypes /\ ApartInv /\ WithinInv /\ CoverInv /\ FoundInv /\ MainInv
      /\ ResultInv /\ InRowInv /\ SortedInv
  BY DEF PrimeParts
<1>m. PICK m \in Nat \ {0} : DOMAIN todo = 0 .. m - 1 /\ Primes!Cardinality(Primes!Worker) = m
  BY <1>0, KeptFacts
<1>. DEFINE c == run.nw
            a == run.n1
            b == run.n2
            q == [v \in 0 .. c - 1 |-> Primes!Part(a, b, c, v)]
            mine == Primes!Part(a, b, c, l)
            p == [v \in 0 .. m - 1 |-> Primes!Part(mine[1], mine[2], m, v)]
<1>1. run.program = "primes_a2a" /\ DOMAIN todo = 0 .. m - 1 /\ senders \subseteq 0 .. c - 1
  BY <1>0, <1>m DEF Primes!L_Worker, MainInv
<1>2. todo' = [w \in DOMAIN todo |-> todo[w] \cup {p[w]}]
  <2>1. todo' = [w \in DOMAIN todo |-> todo[w] \cup {Primes!Part(mine[1], mine[2], m, w)}]
    BY <1>m DEF Primes!L_Worker, Primes!Worker
  <2>2. \A w \in DOMAIN todo : p[w] = Primes!Part(mine[1], mine[2], m, w)
    BY <1>1
  <2>. HIDE DEF mine, p
  <2>. QED BY <2>1, <2>2
<1>3. senders' = senders \ {l} /\ UNCHANGED <<run, chunks, found, joined, results, main>>
  BY DEF Primes!L_Worker
<1>4. /\ m \in Nat \ {0} /\ c \in Nat \ {0} /\ a \in Nat /\ b \in Nat /\ a <= b /\ run.behind = b
  BY <1>0, <1>1 DEF RunTypes
<1>5. Splits(q, c, a, b)
  BY <1>4, PartSplits
<1>6. mine = q[l] /\ l \in 0 .. c - 1
  BY <1>1
<1>7. mine \in Parts /\ mine[1] \in Nat /\ mine[2] \in Nat /\ mine[1] <= mine[2]
  <2>. HIDE DEF q, mine
  <2>. QED BY <1>5, <1>6 DEF Splits, Parts
<1>. HIDE DEF mine
<1>8. Splits(p, m, mine[1], mine[2])
  BY <1>4, <1>7, PartSplits
<1>9. \A v \in 0 .. m - 1 : p[v] \in Parts /\ Numbers(p[v]) \subseteq Numbers(mine)
  <2>. HIDE DEF p
  <2>0. m \in Nat
    BY <1>4
  <2>1. \A v \in 0 .. m - 1 : Numbers(p[v]) \subseteq mine[1] .. mine[2] - 1
    BY <1>7, <1>8, <2>0, SplitWithin
  <2>2. \A v \in 0 .. m - 1 : p[v] \in Parts
    BY <1>8 DEF Splits
  <2>3. Numbers(mine) = mine[1] .. mine[2] - 1
    BY DEF Numbers
  <2>. QED BY <2>1, <2>2, <2>3
<1>. HIDE DEF p, q
<1>10. DOMAIN todo' = DOMAIN todo /\ \A v \in DOMAIN todo : todo'[v] = todo[v] \cup {p[v]}
  BY <1>2
<1>11. /\ Primes!Farm' = Primes!Farm /\ KeptPart' = KeptPart /\ Range1' = Range1
       /\ (\A k : UnsentPart(k)' = UnsentPart(k)) /\ InPlace' = InPlace /\ RunTypes'
  BY <1>0, <1>3, <1>10, SameRun
<1>12. ~Primes!Farm /\ Kept = {} /\ Kept' = {} /\ chunks = <<>>
  BY <1>0, <1>1, <1>11 DEF Primes!Farm, Kept, MainInv
<1>13. \A k \in 0 .. c - 1 : UnsentPart(k) = q[k]
  BY <1>1 DEF UnsentPart, q
<1>14. UnsentPart(l) = mine /\ Numbers(mine) = mine[1] .. mine[2] - 1
  BY <1>6, <1>13 DEF Numbers
<1>15. \A v \in DOMAIN todo : Numbers(mine) \cap Has(v) = {}
  BY <1>0, <1>14 DEF ApartInv
<1>16. \A k \in senders' : Numbers(UnsentPart(k)) \cap Numbers(mine) = {}
  <2>1. \A k \in senders' : k \in 0 .. c - 1 /\ k # l
    BY <1>1, <1>3
  <2>2. \A k \in 0 .. c - 1 : k # l => Numbers(q[k]) \cap Numbers(q[l]) = {}
    <3>. HIDE DEF c, a, b
    <3>. QED BY <1>4, <1>5, <1>6, SplitApart
  <2>. QED BY <1>6, <1>13, <2>1, <2>2
<1>. HIDE DEF c, a, b
<1>17. \A v \in DOMAIN todo : /\ Ahead(v)' = Ahead(v) \cup Numbers(p[v])
                              /\ Seen(v)' = Seen(v) /\ Has(v)' = Has(v) \cup Numbers(p[v])
  BY <1>3, <1>10, SentHas
<1>18. PrimeTypes'
  <2>0. \A v \in DOMAIN todo : todo[v] \subseteq Parts /\ found[v] \in Seq(Nat)
    BY <1>0 DEF PrimeTypes
  <2>3. \A v \in DOMAIN todo : p[v] \in Parts
    BY <1>1, <1>9
  <2>1. \A v \in DOMAIN todo : todo'[v] \subseteq Parts /\ found'[v] \in Seq(Nat)
    BY <1>3, <1>10, <2>0, <2>3
  <2>. QED BY <1>0, <1>3, <1>10, <2>1 DEF PrimeTypes
<1>19. ApartInv'
  <2>1. \A k \in senders' : /\ Numbers(UnsentPart(k)') \cap (mine[1] .. mine[2] - 1) = {}
                            /\ (k \in senders /\ UnsentPart(k)' = UnsentPart(k))
    BY <1>3, <1>11, <1>14, <1>16
  <2>2. \A v \in DOMAIN todo : (mine[1] .. mine[2] - 1) \cap Has(v) = {}
    BY <1>14, <1>15
  <2>3. Kept' \cap (mine[1] .. mine[2] - 1) = {} /\ \A v \in DOMAIN todo : Kept' \cap Has(v) = {}
    BY <1>12
  <2>4. PrimeTypes /\ ApartInv /\ chunks = <<>> /\ DOMAIN todo = 0 .. m - 1
    BY <1>0, <1>1, <1>12
  <2>5. m \in Nat /\ mine[1] \in Nat /\ mine[2] \in Nat
    BY <1>4, <1>7
  <2>6. DOMAIN todo' = DOMAIN todo /\ found' = found /\ chunks' = chunks
    BY <1>3, <1>10
  <2>7. \A v \in DOMAIN todo : todo'[v] = todo[v] \cup {p[v]}
    BY <1>10
  <2>. HIDE DEF mine
  <2>8a. PICK P : P = p
    OBVIOUS
  <2>8b. PICK A \in Nat : A = mine[1]
    BY <2>5
  <2>8c. PICK B \in Nat : B = mine[2]
    BY <2>5
  <2>8. PICK K \in Nat : K = m
    BY <2>5
  <2>9. Send(P, K, A, B)
    <3>1. /\ PrimeTypes /\ ApartInv /\ chunks = <<>> /\ DOMAIN todo = 0 .. K - 1
          /\ Splits(P, K, A, B)
          /\ \A v \in DOMAIN todo : todo'[v] = todo[v] \cup {P[v]}
          /\ \A v \in DOMAIN todo : (A .. B - 1) \cap Has(v) = {}
          /\ \A k \in senders' : /\ Numbers(UnsentPart(k)') \cap (A .. B - 1) = {}
                                 /\ (k \in senders /\ UnsentPart(k)' = UnsentPart(k))
          /\ Kept' \cap (A .. B - 1) = {} /\ \A v \in DOMAIN todo : Kept' \cap Has(v) = {}
          /\ DOMAIN todo' = DOMAIN todo /\ found' = found /\ chunks' = chunks
      BY <1>8, <2>1, <2>2, <2>3, <2>4, <2>6, <2>7, <2>8a, <2>8b, <2>8c, <2>8, Zenon
    <3>. QED BY <3>1 DEF Send
  <2>. QED BY <2>9, SentApart
<1>20. Numbers(mine) \subseteq Range1
  <2>1. Numbers(q[l]) \subseteq a .. b - 1
    BY <1>4, <1>5, <1>6, SplitApart
  <2>2. Range1 = a .. b - 1
    BY <1>4 DEF Range1, a
  <2>. QED BY <1>6, <2>1, <2>2
<1>21. WithinInv'
  BY <1>0, <1>1, <1>3, <1>9, <1>10, <1>11, <1>17, <1>20 DEF WithinInv
<1>22. CoverInv'
  <2>1. \A n \in Numbers(mine) : \E v \in DOMAIN todo : n \in Has(v)'
    <3>1. \A n \in Numbers(mine) : \E v \in 0 .. m - 1 : n \in Numbers(p[v])
      BY <1>8, <1>14 DEF Splits
    <3>. QED BY <1>1, <1>17, <3>1
  <2>2. \A v \in DOMAIN todo : Has(v) \subseteq Has(v)'
    BY <1>17
  <2>3. \A k \in senders : k \in senders' \/ UnsentPart(k) = mine
    BY <1>3, <1>14
  <2>4. ASSUME NEW n \in Range1, Primes!is_prime(n)
        PROVE  (\E v \in DOMAIN todo : n \in Has(v)') \/ (\E k \in senders' : n \in Numbers(UnsentPart(k)))
    <3>1. \/ \E v \in DOMAIN todo : n \in Has(v)
          \/ \E k \in senders : n \in Numbers(UnsentPart(k))
      <4>1. n \notin Kept /\ \A k \in 1 .. Len(chunks) : FALSE
        BY <1>12
      <4>. QED BY <1>0, <2>4, <4>1 DEF CoverInv
    <3>. QED BY <2>1, <2>2, <2>3, <3>1
  <2>. QED BY <1>10, <1>11, <2>4 DEF CoverInv
<1>23. FoundInv'
  BY <1>0, <1>3, <1>10 DEF FoundInv, Seen
<1>24. main = "running" /\ joined = {} /\ results = <<>>
  BY <1>0 DEF MainInv
<1>25. MainInv'
  BY <1>0, <1>1, <1>3, <1>10, <1>11, <1>12, <1>24 DEF MainInv
<1>26. ResultInv' /\ SortedInv'
  BY <1>3, <1>24 DEF ResultInv, SortedInv
<1>27. InRowInv'
  <2>1. SUFFICES ASSUME InPlace PROVE InRowInv'
    BY <1>11 DEF InRowInv
  <2>2. c = 1
    <3>1. ~(run.nw > 1) /\ run.nw \in Nat \ {0}
      BY <1>0, <1>1, <2>1 DEF InPlace, Primes!MustSort, RunTypes
    <3>. QED BY <3>1 DEF c
  <2>3. senders' = {}
    <3>1. 0 .. c - 1 = {0}
      BY <2>2
    <3>. QED BY <1>1, <1>3, <3>1
  <2>4. \A v \in DOMAIN todo : todo[v] = {} /\ found[v] = <<>>
    BY <1>0, <2>1 DEF InRowInv
  <2>5. \A v \in DOMAIN todo : todo'[v] = {p[v]} /\ found'[v] = <<>>
    BY <1>3, <1>10, <2>4
  <2>6. (\A v \in DOMAIN todo : Primes!Sorted(found[v])) /\ Primes!Sorted(results)
    BY <1>0, <2>1 DEF InRowInv
  <2>7. \A v \in DOMAIN todo : Has(v)' = Numbers(p[v])
    <3>1. \A v \in DOMAIN todo : Ahead(v)' = Numbers(p[v])
      BY <1>10, <2>5 DEF Ahead
    <3>2. \A v \in DOMAIN todo : Seen(v)' = {}
      BY <1>10, <2>5 DEF Seen, Primes!ToSet
    <3>3. \A v \in DOMAIN todo : Has(v)' = Ahead(v)' \cup Seen(v)'
      BY DEF Has
    <3>. QED BY <3>1, <3>2, <3>3
  <2>8. \A v, w \in DOMAIN todo : v < w => \A x \in Has(v)' : \A y \in Has(w)' : x < y
    <3>1. ASSUME NEW v \in 0 .. m - 1, NEW w \in 0 .. m - 1, v < w
          PROVE  \A x \in Numbers(p[v]) : \A y \in Numbers(p[w]) : x < y
      BY <1>4, <1>7, <1>8, <3>1, SplitApart
    <3>. QED BY <1>1, <2>7, <3>1
  <2>. QED BY <1>3, <1>10, <1>12, <1>24, <2>3, <2>5, <2>6, <2>8 DEF InRowInv
<1>. QED
  BY <1>11, <1>18, <1>19, <1>21, <1>22, <1>23, <1>25, <1>26, <1>27 DEF PrimeParts

(* The emitter sends every worker a part, and keeps the first one.          *)
LEMMA EmitterSendsStep ==
  ASSUME PrimeParts, Primes!EmitterSends
  PROVE  PrimeParts'
<1>0. /\ RunTypes /\ PrimeTypes /\ ApartInv /\ WithinInv /\ CoverInv /\ FoundInv /\ MainInv
      /\ ResultInv /\ InRowInv /\ SortedInv
  BY DEF PrimeParts
<1>1. /\ Primes!Farm /\ senders # {} /\ senders' = {}
      /\ todo' = [w \in DOMAIN todo |-> {Primes!WorkerPart(run.n1, run.n2, Primes!Cardinality(Primes!Worker), w)}]
      /\ UNCHANGED <<run, chunks, found, joined, results, main>>
  BY DEF Primes!EmitterSends, Primes!Worker
<1>2. PICK m \in Nat \ {0} :
           /\ DOMAIN todo = 0 .. m - 1
           /\ Primes!Cardinality(Primes!Worker) = m
           /\ KeptPart \in Parts /\ KeptPart[1] = run.n1 /\ KeptPart[2] <= run.n2
           /\ \A p : (\A i \in 0 .. m - 1 : p[i] = Primes!WorkerPart(run.n1, run.n2, m, i))
                => Splits(p, m, KeptPart[2], run.n2)
  BY <1>0, KeptFacts
<1>3. PICK a, b, k, p : /\ a = run.n1 /\ b = run.n2 /\ k = KeptPart[2]
                        /\ p = [i \in 0 .. m - 1 |-> Primes!WorkerPart(run.n1, run.n2, m, i)]
  OBVIOUS
<1>4. Splits(p, m, k, b)
  BY <1>2, <1>3
<1>5. /\ a \in Nat /\ b \in Nat /\ k \in Nat /\ a <= k /\ k <= b
      /\ Numbers(KeptPart) = a .. k - 1 /\ Range1 = a .. b - 1
  <2>1. a \in Nat /\ b \in Nat /\ run.behind = b
    BY <1>0, <1>1, <1>3 DEF RunTypes
  <2>2. k \in Nat /\ a <= k /\ k <= b
    BY <1>2, <1>3 DEF Parts
  <2>3. Numbers(KeptPart) = a .. k - 1 /\ Range1 = a .. b - 1
    BY <1>2, <1>3, <2>1 DEF Numbers, Range1
  <2>. QED BY <2>1, <2>2, <2>3
<1>6. /\ \A v \in DOMAIN todo : todo[v] = {} /\ found[v] = <<>>
      /\ main = "running" /\ joined = {} /\ results = <<>> /\ chunks = <<>>
  BY <1>0, <1>1 DEF MainInv, Primes!Farm
<1>7. DOMAIN todo' = DOMAIN todo /\ \A v \in DOMAIN todo : todo'[v] = {p[v]}
  <2>1. \A v \in 0 .. m - 1 : p[v] = Primes!WorkerPart(run.n1, run.n2, m, v)
    BY <1>3
  <2>. QED BY <1>1, <1>2, <2>1
<1>8. \A v \in DOMAIN todo : todo'[v] = todo[v] \cup {p[v]}
  BY <1>6, <1>7
<1>9. /\ Primes!Farm' = Primes!Farm /\ KeptPart' = KeptPart /\ Range1' = Range1
      /\ InPlace' = InPlace /\ RunTypes'
  BY <1>0, <1>1, <1>7, SameRun
<1>10. Kept' = a .. k - 1
  BY <1>1, <1>5, <1>9 DEF Kept
<1>11. \A v \in DOMAIN todo : Has(v) = {}
  <2>1. \A v \in DOMAIN todo : Ahead(v) = {}
    BY <1>6 DEF Ahead
  <2>2. \A v \in DOMAIN todo : Seen(v) = {}
    BY <1>6 DEF Seen, Primes!ToSet
  <2>. QED BY <2>1, <2>2 DEF Has
<1>12. \A v \in DOMAIN todo : /\ Ahead(v)' = Numbers(p[v]) /\ Seen(v)' = {} /\ Has(v)' = Numbers(p[v])
  <2>1. \A v \in DOMAIN todo : Ahead(v)' = Numbers(p[v])
    BY <1>7 DEF Ahead
  <2>2. \A v \in DOMAIN todo : Seen(v)' = {}
    BY <1>1, <1>6 DEF Seen, Primes!ToSet
  <2>. QED BY <2>1, <2>2 DEF Has
<1>13. /\ \A v \in DOMAIN todo : Numbers(p[v]) \subseteq k .. b - 1
       /\ \A u, v \in DOMAIN todo : u < v => \A x \in Numbers(p[u]) : \A y \in Numbers(p[v]) : x < y
  <2>1. m \in Nat /\ k \in Nat /\ b \in Nat
    BY <1>2, <1>5
  <2>2. /\ \A v \in 0 .. m - 1 : Numbers(p[v]) \subseteq k .. b - 1
        /\ \A u, v \in 0 .. m - 1 : u < v => \A x \in Numbers(p[u]) : \A y \in Numbers(p[v]) : x < y
    BY <1>4, <2>1, SplitApart
  <2>3. DOMAIN todo = 0 .. m - 1
    BY <1>2
  <2>. QED BY <2>2, <2>3, Zenon
<1>14. ApartInv'
  <2>1. Send(p, m, k, b)
    <3>1. (a .. k - 1) \cap (k .. b - 1) = {}
      BY <1>5
    <3>2. \A v \in DOMAIN todo : (k .. b - 1) \cap Has(v) = {} /\ Kept' \cap Has(v) = {}
      BY <1>11
    <3>3. \A l \in senders' : FALSE
      BY <1>1
    <3>4. Kept' \cap (k .. b - 1) = {}
      BY <1>10, <3>1
    <3>5. found' = found /\ chunks' = chunks
      BY <1>1
    <3>. QED BY <1>0, <1>2, <1>4, <1>6, <1>7, <1>8, <3>2, <3>3, <3>4, <3>5, Zenon DEF Send
  <2>. QED BY <1>2, <1>5, <2>1, SentApart
<1>15. PrimeTypes'
  <2>1. \A v \in DOMAIN todo : todo'[v] \subseteq Parts /\ found'[v] \in Seq(Nat)
    <3>1. \A v \in DOMAIN todo : p[v] \in Parts
      BY <1>2, <1>4 DEF Splits
    <3>2. \A v \in DOMAIN todo : todo'[v] \subseteq Parts
      BY <1>7, <3>1
    <3>3. \A v \in DOMAIN todo : found'[v] \in Seq(Nat)
      BY <1>0, <1>1 DEF PrimeTypes
    <3>. QED BY <3>2, <3>3
  <2>. QED BY <1>0, <1>1, <1>7, <2>1 DEF PrimeTypes
<1>16. WithinInv'
  <2>1. \A v \in DOMAIN todo : Has(v)' \subseteq Range1
    <3>1. (k .. b - 1) \subseteq (a .. b - 1)
      BY <1>5
    <3>. QED BY <1>5, <1>12, <1>13, <3>1
  <2>2. \A j \in 1 .. Len(chunks') : FALSE
    BY <1>1, <1>6
  <2>. QED BY <1>7, <1>9, <2>1, <2>2 DEF WithinInv
<1>17. CoverInv'
  <2>1. ASSUME NEW n \in Range1
        PROVE  n \in Kept' \/ \E v \in DOMAIN todo : n \in Has(v)'
    <3>1. CASE n < k
      BY <1>5, <1>10, <2>1, <3>1
    <3>2. CASE ~(n < k)
      <4>1. n \in k .. b - 1
        BY <1>5, <2>1, <3>2
      <4>2. PICK v \in 0 .. m - 1 : n \in Numbers(p[v])
        BY <1>4, <4>1 DEF Splits
      <4>. QED BY <1>2, <1>12, <4>2
    <3>. QED BY <3>1, <3>2
  <2>. QED BY <1>7, <1>9, <2>1 DEF CoverInv
<1>18. FoundInv'
  BY <1>0, <1>1, <1>7 DEF FoundInv, Seen
<1>19. MainInv'
  BY <1>0, <1>1, <1>6, <1>7, <1>9 DEF MainInv
<1>20. ResultInv' /\ SortedInv'
  BY <1>1, <1>6 DEF ResultInv, SortedInv
<1>21. InRowInv'
  <2>1. SUFFICES ASSUME InPlace PROVE InRowInv'
    BY <1>9 DEF InRowInv
  <2>2. \A v \in DOMAIN todo : Primes!Sorted(found[v])
    BY <1>0, <2>1 DEF InRowInv
  <2>3. Primes!Sorted(results)
    BY <1>0, <2>1 DEF InRowInv
  <2>4. \A v \in DOMAIN todo : \A x \in Kept' : \A y \in Has(v)' : x < y
    <3>1. \A x \in a .. k - 1 : \A y \in k .. b - 1 : x < y
      BY <1>5
    <3>2. \A v \in DOMAIN todo : Has(v)' \subseteq k .. b - 1
      BY <1>12, <1>13
    <3>. QED BY <1>10, <3>1, <3>2
  <2>5. \A u, v \in DOMAIN todo : u < v => \A x \in Has(u)' : \A y \in Has(v)' : x < y
    BY <1>12, <1>13
  <2>6. \A v \in DOMAIN todo : \A q, r \in todo'[v] : q = r
    BY <1>7
  <2>7. Primes!Farm' /\ joined' = {} /\ senders' = {} /\ results' = results /\ found' = found
        /\ \A v \in DOMAIN todo : found[v] = <<>>
    BY <1>1, <1>6, <1>9
  <2>. QED BY <1>7, <2>2, <2>3, <2>4, <2>5, <2>6, <2>7, Zenon DEF InRowInv
<1>. QED
  BY <1>9, <1>14, <1>15, <1>16, <1>17, <1>18, <1>19, <1>20, <1>21 DEF PrimeParts

(* The main program's steps leave the numbers where they are.               *)
LEMMA MainFrame ==
  ASSUME PrimeParts, UNCHANGED <<run, senders, todo, chunks, found>>,
         joined' \subseteq DOMAIN todo, results' \in Seq(Nat),
         main' \in {"running", "joining", "end"}
  PROVE  /\ RunTypes' /\ PrimeTypes' /\ ApartInv' /\ WithinInv' /\ CoverInv' /\ FoundInv'
         /\ Primes!Farm' = Primes!Farm /\ Primes!MustSort' = Primes!MustSort
         /\ KeptPart' = KeptPart /\ InPlace' = InPlace
         /\ Kept' = Kept
         /\ \A v \in DOMAIN todo : Has(v)' = Has(v) /\ Seen(v)' = Seen(v)
<1>0. /\ RunTypes /\ PrimeTypes /\ ApartInv /\ WithinInv /\ CoverInv /\ FoundInv
  BY DEF PrimeParts
<1>1. /\ Primes!Farm' = Primes!Farm /\ Primes!MustSort' = Primes!MustSort
      /\ KeptPart' = KeptPart /\ Range1' = Range1
      /\ (\A l : UnsentPart(l)' = UnsentPart(l)) /\ InPlace' = InPlace /\ RunTypes'
  BY <1>0, SameRun
<1>2. Kept' = Kept
  BY <1>1 DEF Kept
<1>3. \A v \in DOMAIN todo : Ahead(v)' = Ahead(v) /\ Has(v)' = Has(v) /\ Seen(v)' = Seen(v)
  BY DEF Ahead, Seen, Has
<1>4. PrimeTypes'
  BY <1>0 DEF PrimeTypes
<1>5. ApartInv'
  <2>1. \A v \in DOMAIN todo : Ahead(v)' \cap Seen(v)' = {}
    BY <1>0, <1>3 DEF ApartInv
  <2>2. \A v \in DOMAIN todo : \A q, r \in todo[v] : q # r => Numbers(q) \cap Numbers(r) = {}
    BY <1>0 DEF ApartInv
  <2>3. \A u, v \in DOMAIN todo : u # v => Has(u)' \cap Has(v)' = {}
    BY <1>0, <1>3 DEF ApartInv
  <2>4. \A v \in DOMAIN todo : /\ \A k \in 1 .. Len(chunks) : Numbers(chunks[k]) \cap Has(v)' = {}
                               /\ \A l \in senders : Numbers(UnsentPart(l)) \cap Has(v)' = {}
                               /\ Kept \cap Has(v)' = {}
    BY <1>0, <1>3 DEF ApartInv
  <2>5. \A j, k \in 1 .. Len(chunks) : j # k => Numbers(chunks[j]) \cap Numbers(chunks[k]) = {}
    BY <1>0 DEF ApartInv
  <2>. QED BY <1>1, <1>2, <2>1, <2>2, <2>3, <2>4, <2>5 DEF ApartInv
<1>6. WithinInv'
  BY <1>0, <1>1, <1>3 DEF WithinInv
<1>7. CoverInv'
  BY <1>0, <1>1, <1>2, <1>3 DEF CoverInv
<1>8. FoundInv'
  BY <1>0, <1>3 DEF FoundInv
<1>. QED
  BY <1>1, <1>2, <1>3, <1>4, <1>5, <1>6, <1>7, <1>8

(* The emitter of the farm searches the part it kept.                       *)
LEMMA EmitterComputesStep ==
  ASSUME PrimeParts, Primes!EmitterComputes
  PROVE  PrimeParts'
<1>0. /\ RunTypes /\ PrimeTypes /\ MainInv /\ InRowInv
  BY DEF PrimeParts
<1>1. /\ Primes!Farm /\ senders = {} /\ main = "running" /\ main' = "joining"
      /\ results' = Primes!PrimesIn(KeptPart)
      /\ UNCHANGED <<run, senders, todo, chunks, found, joined>>
  BY DEF Primes!EmitterComputes, KeptPart
<1>2. KeptPart \in Parts
  BY <1>0, KeptFacts
<1>3. /\ results' \in Seq(Nat) /\ Primes!Sorted(results') /\ Once(results')
      /\ Primes!ToSet(results') = {n \in Numbers(KeptPart) : Primes!is_prime(n)}
  BY <1>1, <1>2, PrimesInFacts
<1>4. joined = {} /\ joined' = {}
  BY <1>0, <1>1 DEF MainInv
<1>5. /\ RunTypes' /\ PrimeTypes' /\ ApartInv' /\ WithinInv' /\ CoverInv' /\ FoundInv'
      /\ Primes!Farm' = Primes!Farm /\ Primes!MustSort' = Primes!MustSort
      /\ KeptPart' = KeptPart /\ InPlace' = InPlace
      /\ Kept' = Kept
      /\ \A v \in DOMAIN todo : Has(v)' = Has(v) /\ Seen(v)' = Seen(v)
  BY <1>1, <1>3, <1>4, MainFrame
<1>6. MainInv'
  BY <1>0, <1>1, <1>4, <1>5 DEF MainInv
<1>7. ResultInv' /\ SortedInv'
  <2>1. Joined' = {n \in Numbers(KeptPart) : Primes!is_prime(n)}
    BY <1>1, <1>4, <1>5 DEF Joined
  <2>. QED BY <1>1, <1>3, <2>1 DEF ResultInv, SortedInv
<1>8. InRowInv'
  BY <1>0, <1>1, <1>3, <1>4, <1>5 DEF InRowInv
<1>. QED
  BY <1>5, <1>6, <1>7, <1>8 DEF PrimeParts

(* The main thread waits for the workers when all of them are done.         *)
LEMMA JoinStartsStep ==
  ASSUME PrimeParts, Primes!JoinStarts
  PROVE  PrimeParts'
<1>0. /\ RunTypes /\ PrimeTypes /\ MainInv /\ InRowInv
  BY DEF PrimeParts
<1>1. /\ ~Primes!Farm /\ main = "running" /\ main' = "joining"
      /\ \A w \in DOMAIN todo : Primes!WorkDone(w)
      /\ UNCHANGED <<run, senders, todo, chunks, found, joined, results>>
  BY DEF Primes!JoinStarts, Primes!Worker
<1>2. joined = {} /\ joined' = {} /\ results = <<>> /\ results' = <<>>
  BY <1>0, <1>1 DEF MainInv
<1>3. senders = {}
  <2>1. \E w : w \in DOMAIN todo
    <3>1. PICK m \in Nat \ {0} : DOMAIN todo = 0 .. m - 1
      BY <1>0 DEF PrimeTypes
    <3>2. 0 \in 0 .. m - 1
      OBVIOUS
    <3>. QED BY <3>1, <3>2
  <2>. QED BY <1>1, <2>1 DEF Primes!WorkDone
<1>4. results' \in Seq(Nat) /\ joined' \subseteq DOMAIN todo
  BY <1>2
<1>5. /\ RunTypes' /\ PrimeTypes' /\ ApartInv' /\ WithinInv' /\ CoverInv' /\ FoundInv'
      /\ Primes!Farm' = Primes!Farm /\ Primes!MustSort' = Primes!MustSort
      /\ KeptPart' = KeptPart /\ InPlace' = InPlace
      /\ Kept' = Kept
      /\ \A v \in DOMAIN todo : Has(v)' = Has(v) /\ Seen(v)' = Seen(v)
  BY <1>1, <1>4, MainFrame
<1>6. MainInv'
  BY <1>0, <1>1, <1>2, <1>3, <1>5 DEF MainInv
<1>7. ResultInv' /\ SortedInv'
  <2>1. Joined' = {}
    BY <1>1, <1>2, <1>5 DEF Joined
  <2>2. Once(<<>>)
    BY DEF Once
  <2>3. Primes!ToSet(<<>>) = {}
    BY DEF Primes!ToSet
  <2>. QED BY <1>1, <1>2, <2>1, <2>2, <2>3 DEF ResultInv, SortedInv
<1>8. InRowInv'
  BY <1>0, <1>1, <1>2, <1>5 DEF InRowInv
<1>. QED
  BY <1>5, <1>6, <1>7, <1>8 DEF PrimeParts

(* The primes of a worker are put where they belong.                        *)
LEMMA JoinSplice ==
  ASSUME PrimeParts, NEW w \in DOMAIN todo, w \notin joined, senders = {},
         main = "joining", todo[w] = {},
         Primes!Farm \/ \A v \in DOMAIN todo : v < w => v \in joined,
         NEW t \in Primes!Joins(w)
  PROVE  \E k \in 0 .. Len(results) :
           /\ Spliced(t, results, found[w], k)
           /\ InPlace =>
                /\ \A i \in 1 .. k : \A j \in 1 .. Len(found[w]) : results[i] < found[w][j]
                /\ \A i \in k + 1 .. Len(results) : \A j \in 1 .. Len(found[w]) : found[w][j] < results[i]
<1>0. /\ RunTypes /\ PrimeTypes /\ ApartInv /\ ResultInv /\ InRowInv
  BY DEF PrimeParts
<1>1. PICK s, v : s = results /\ v = found[w]
  OBVIOUS
<1>2. s \in Seq(Nat) /\ v \in Seq(Nat) /\ Seen(w) = Primes!ToSet(v)
  BY <1>0, <1>1 DEF PrimeTypes, Seen
<1>3. Primes!ToSet(s) = Joined
  BY <1>0, <1>1 DEF ResultInv
(* Who is in the results already.                                           *)
<1>4. ASSUME NEW i \in 1 .. Len(s)
      PROVE  \/ s[i] \in Kept
             \/ \E u \in joined : u # w /\ u \in DOMAIN todo /\ s[i] \in Seen(u)
  <2>1. s[i] \in Joined
    BY <1>2, <1>3 DEF Primes!ToSet
  <2>2. \A u \in joined : u # w /\ u \in DOMAIN todo
    BY <1>0 DEF PrimeTypes
  <2>. QED BY <2>1, <2>2 DEF Joined, Kept
<1>5. \A j \in 1 .. Len(v) : v[j] \in Has(w)
  BY <1>2 DEF Primes!ToSet, Has
<1>6. \A u \in DOMAIN todo : Seen(u) \subseteq Has(u)
  BY DEF Has
<1>7. /\ Kept \cap Has(w) = {}
      /\ \A u \in DOMAIN todo : u # w => Has(u) \cap Has(w) = {}
  BY <1>0 DEF ApartInv
<1>8. ASSUME NEW i \in 1 .. Len(s), NEW j \in 1 .. Len(v)
      PROVE  s[i] # v[j] /\ s[i] \in Nat /\ v[j] \in Nat
  BY <1>2, <1>4, <1>5, <1>6, <1>7
<1>9. w \in Nat /\ DOMAIN todo \subseteq Nat
  BY <1>0 DEF PrimeTypes
<1>10. ASSUME InPlace
       PROVE  /\ Primes!Sorted(s) /\ Primes!Sorted(v)
              /\ \A u, x \in DOMAIN todo : u < x => \A y \in Has(u) : \A z \in Has(x) : y < z
              /\ \A y \in Kept : \A z \in Has(w) : y < z
              /\ ~Primes!Farm => \A x \in joined : \A u \in DOMAIN todo : u < x => u \in joined
  BY <1>0, <1>1, <1>10 DEF InRowInv
<1>11. CASE run.program = "primes_parallelfor"
  <2>1. t = s \o v
    BY <1>1, <1>11 DEF Primes!Joins
  <2>2. Spliced(t, s, v, Len(s)) /\ Len(s) \in 0 .. Len(s) /\ \A i \in Len(s) + 1 .. Len(s) : FALSE
    BY <1>2, <2>1, SpliceBehind
  <2>3. ASSUME InPlace, NEW i \in 1 .. Len(s), NEW j \in 1 .. Len(v)
        PROVE  s[i] < v[j]
    <3>1. CASE s[i] \in Kept
      BY <1>5, <1>10, <2>3, <3>1
    <3>2. ASSUME NEW u \in joined, u # w, u \in DOMAIN todo, s[i] \in Seen(u)
          PROVE  s[i] < v[j]
      <4>1. ~(w < u)
        <5>1. ~Primes!Farm
          BY <1>11 DEF Primes!Farm
        <5>2. \A x \in joined : \A y \in DOMAIN todo : y < x => y \in joined
          BY <1>10, <2>3, <5>1
        <5>. QED BY <3>2, <5>2
      <4>2. u < w
        BY <1>9, <3>2, <4>1
      <4>. QED BY <1>5, <1>6, <1>10, <2>3, <3>2, <4>2
    <3>. QED BY <1>4, <3>1, <3>2
  <2>. QED BY <1>1, <2>2, <2>3
<1>12. CASE run.program # "primes_parallelfor" /\ v = <<>>
  <2>1. t = s
    BY <1>1, <1>12 DEF Primes!Joins, Primes!Insert
  <2>2. Len(v) = 0 /\ Len(s) \in Nat
    BY <1>2, <1>12
  <2>3. Spliced(t, s, v, Len(s))
    BY <1>2, <2>1, <2>2 DEF Spliced
  <2>4. Len(s) \in 0 .. Len(s) /\ \A j \in 1 .. Len(v) : FALSE
    BY <2>2
  <2>. QED BY <1>1, <2>3, <2>4
<1>13. CASE run.program # "primes_parallelfor" /\ v # <<>>
  <2>1. PICK k \in Primes!upper_bound(s, v[1]) :
          t = SubSeq(s, 1, k) \o v \o SubSeq(s, k + 1, Len(s))
    BY <1>1, <1>13 DEF Primes!Joins, Primes!Insert
  <2>2. 1 \in 1 .. Len(v) /\ v[1] \in Nat
    BY <1>2, <1>13
  <2>3. /\ k \in 0 .. Len(s)
        /\ Primes!Sorted(s) => /\ \A i \in 1 .. k : s[i] <= v[1]
                               /\ \A i \in k + 1 .. Len(s) : v[1] < s[i]
    BY <1>2, <2>1, <2>2, UpperBound
  <2>4. Spliced(t, s, v, k)
    BY <1>2, <2>1, <2>3, Splice
  <2>5. ASSUME InPlace, NEW i \in 1 .. k, NEW j \in 1 .. Len(v)
        PROVE  s[i] < v[j]
    <3>1. i \in 1 .. Len(s)
      BY <1>2, <2>3
    <3>2. s[i] <= v[1] /\ s[i] # v[1] /\ s[i] \in Nat
      BY <1>8, <1>10, <2>2, <2>3, <2>5, <3>1
    <3>3. v[j] \in Nat /\ v[1] <= v[j]
      <4>1. \A x, y \in DOMAIN v : x < y => v[x] < v[y]
        BY <1>10, <2>5 DEF Primes!Sorted
      <4>2. v[j] \in Nat /\ 1 \in DOMAIN v /\ j \in DOMAIN v /\ (j = 1 \/ 1 < j)
        BY <1>2, <2>2
      <4>. QED BY <2>2, <4>1, <4>2
    <3>. QED BY <2>2, <3>2, <3>3
  <2>6. ASSUME InPlace, NEW i \in k + 1 .. Len(s), NEW j \in 1 .. Len(v)
        PROVE  v[j] < s[i]
    <3>1. i \in 1 .. Len(s)
      BY <1>2, <2>3
    <3>2. v[1] < s[i] /\ s[i] \in Nat
      BY <1>8, <1>10, <2>2, <2>3, <2>6, <3>1
    <3>3. s[i] \notin Kept
      <4>1. s[i] \in Kept => s[i] < v[1]
        BY <1>5, <1>10, <2>2, <2>6
      <4>. QED BY <2>2, <3>2, <4>1
    <3>4. PICK u \in joined : u # w /\ u \in DOMAIN todo /\ s[i] \in Seen(u)
      BY <1>4, <3>1, <3>3
    <3>5. ~(u < w)
      <4>1. u < w => s[i] < v[1]
        BY <1>5, <1>6, <1>10, <2>2, <2>6, <3>4
      <4>. QED BY <2>2, <3>2, <4>1
    <3>6. w < u
      BY <1>9, <3>4, <3>5
    <3>. QED BY <1>5, <1>6, <1>10, <2>6, <3>4, <3>6
  <2>. QED BY <1>1, <2>3, <2>4, <2>5, <2>6
<1>. QED
  BY <1>11, <1>12, <1>13

(* A worker's primes come to the results.                                   *)
LEMMA JoinStep ==
  ASSUME PrimeParts, NEW w \in DOMAIN todo, Primes!Join(w)
  PROVE  PrimeParts'
<1>0. /\ RunTypes /\ PrimeTypes /\ ApartInv /\ FoundInv /\ MainInv /\ ResultInv /\ InRowInv
  BY DEF PrimeParts
<1>1. /\ main = "joining" /\ w \notin joined /\ Primes!WorkDone(w)
      /\ Primes!Farm \/ \A v \in DOMAIN todo : v < w => v \in joined
      /\ results' \in Primes!Joins(w) /\ joined' = joined \cup {w}
      /\ UNCHANGED <<run, senders, todo, chunks, found, main>>
  BY DEF Primes!Join, Primes!Worker
<1>2. senders = {} /\ chunks = <<>> /\ todo[w] = {}
  BY <1>1 DEF Primes!WorkDone
<1>3. PICK k \in 0 .. Len(results) :
        /\ Spliced(results', results, found[w], k)
        /\ InPlace =>
             /\ \A i \in 1 .. k : \A j \in 1 .. Len(found[w]) : results[i] < found[w][j]
             /\ \A i \in k + 1 .. Len(results) : \A j \in 1 .. Len(found[w]) : found[w][j] < results[i]
  <2>1. PICK t \in Primes!Joins(w) : t = results'
    BY <1>1
  <2>2. \E k \in 0 .. Len(results) :
           /\ Spliced(t, results, found[w], k)
           /\ InPlace =>
                /\ \A i \in 1 .. k : \A j \in 1 .. Len(found[w]) : results[i] < found[w][j]
                /\ \A i \in k + 1 .. Len(results) : \A j \in 1 .. Len(found[w]) : found[w][j] < results[i]
    BY <1>1, <1>2, JoinSplice
  <2>. QED BY <2>1, <2>2
<1>4. PICK s, v, t : s = results /\ v = found[w] /\ t = results'
  OBVIOUS
<1>5. /\ s \in Seq(Nat) /\ v \in Seq(Nat) /\ Once(v) /\ Seen(w) = Primes!ToSet(v)
      /\ Once(s) /\ Primes!ToSet(s) = Joined
      /\ k \in 0 .. Len(s) /\ Spliced(t, s, v, k)
  BY <1>0, <1>1, <1>3, <1>4 DEF PrimeTypes, FoundInv, Seen, ResultInv
<1>6. /\ Primes!ToSet(t) = Primes!ToSet(s) \cup Primes!ToSet(v)
      /\ Once(s) /\ Once(v) /\ Primes!ToSet(s) \cap Primes!ToSet(v) = {} => Once(t)
  BY <1>5, SplicedSet
<1>7. Joined \cap Seen(w) = {}
  <2>1. \A u \in joined : u # w /\ u \in DOMAIN todo
    BY <1>0, <1>1 DEF PrimeTypes
  <2>2. \A u \in DOMAIN todo : Seen(u) \subseteq Has(u)
    BY DEF Has
  <2>3. /\ Kept \cap Has(w) = {}
        /\ \A u \in DOMAIN todo : u # w => Has(u) \cap Has(w) = {}
    BY <1>0 DEF ApartInv
  <2>4. Joined \subseteq Kept \cup UNION {Has(u) : u \in joined}
    BY <1>2, <2>1, <2>2 DEF Joined, Kept
  <2>. QED BY <2>1, <2>2, <2>3, <2>4
<1>8. Once(t)
  BY <1>5, <1>6, <1>7
<1>9. t \in Seq(Nat)
  BY <1>5 DEF Spliced
<1>10. results' \in Seq(Nat) /\ joined' \subseteq DOMAIN todo /\ main' \in {"running", "joining", "end"}
  BY <1>0, <1>1, <1>4, <1>9 DEF PrimeTypes
<1>11. /\ RunTypes' /\ PrimeTypes' /\ ApartInv' /\ WithinInv' /\ CoverInv' /\ FoundInv'
       /\ Primes!Farm' = Primes!Farm /\ Primes!MustSort' = Primes!MustSort
       /\ KeptPart' = KeptPart /\ InPlace' = InPlace
       /\ Kept' = Kept
       /\ \A u \in DOMAIN todo : Has(u)' = Has(u) /\ Seen(u)' = Seen(u)
  BY <1>1, <1>10, MainFrame
<1>12. MainInv'
  BY <1>0, <1>1, <1>2, <1>11 DEF MainInv
<1>13. ResultInv' /\ SortedInv'
  <2>1. Joined' = Joined \cup Seen(w)
    <3>1. \A u \in joined' : Seen(u)' = Seen(u)
      BY <1>10, <1>11
    <3>. QED BY <1>1, <1>11, <3>1 DEF Joined
  <2>2. Primes!ToSet(results') = Joined' /\ Once(results')
    BY <1>4, <1>5, <1>6, <1>8, <2>1
  <2>. QED BY <1>1, <2>2 DEF ResultInv, SortedInv
<1>14. InRowInv'
  <2>1. SUFFICES ASSUME InPlace PROVE InRowInv'
    BY <1>11 DEF InRowInv
  <2>2. Primes!Sorted(s) /\ Primes!Sorted(v)
    BY <1>0, <1>4, <2>1 DEF InRowInv
  <2>3. /\ \A i \in 1 .. k : \A j \in 1 .. Len(v) : s[i] < v[j]
        /\ \A i \in k + 1 .. Len(s) : \A j \in 1 .. Len(v) : v[j] < s[i]
    BY <1>3, <1>4, <2>1
  <2>4. Primes!Sorted(t)
    BY <1>5, <2>2, <2>3, SplicedSorted
  <2>5. \A u \in DOMAIN todo :
             /\ Primes!Sorted(found[u])
             /\ found[u] = <<>> \/ todo[u] = {}
             /\ \A p, q \in todo[u] : p = q
             /\ \A x \in DOMAIN todo : x < u => \A y \in Has(x)' : \A z \in Has(u)' : y < z
             /\ \A y \in Kept : \A z \in Has(u)' : y < z
    <3>1. \A u \in DOMAIN todo :
             /\ Primes!Sorted(found[u])
             /\ found[u] = <<>> \/ todo[u] = {}
             /\ \A p, q \in todo[u] : p = q
             /\ \A x \in DOMAIN todo : x < u => \A y \in Has(x) : \A z \in Has(u) : y < z
             /\ \A y \in Kept : \A z \in Has(u) : y < z
      BY <1>0, <2>1 DEF InRowInv
    <3>. QED BY <1>11, <3>1
  <2>6. ~Primes!Farm => \A x \in joined' : \A u \in DOMAIN todo : u < x => u \in joined'
    <3>1. ~Primes!Farm => \A x \in joined : \A u \in DOMAIN todo : u < x => u \in joined
      BY <1>0, <2>1 DEF InRowInv
    <3>. QED BY <1>1, <3>1
  <2>7. Primes!Sorted(results')
    BY <1>4, <2>4
  <2>8. senders' = {} /\ todo' = todo /\ found' = found
    BY <1>1, <1>2
  <2>. QED BY <1>11, <2>5, <2>6, <2>7, <2>8, Zenon DEF InRowInv
<1>. QED
  BY <1>11, <1>12, <1>13, <1>14 DEF PrimeParts

(* Behind the last worker the programs that must sort do.                   *)
LEMMA FinishStep ==
  ASSUME PrimeParts, Primes!Finish
  PROVE  PrimeParts'
<1>0. /\ RunTypes /\ PrimeTypes /\ MainInv /\ ResultInv /\ InRowInv
  BY DEF PrimeParts
<1>1. /\ main = "joining" /\ joined = DOMAIN todo /\ main' = "end"
      /\ results' = IF Primes!MustSort THEN Primes!sort(results) ELSE results
      /\ UNCHANGED <<run, senders, todo, chunks, found, joined>>
  BY DEF Primes!Finish, Primes!Worker
<1>2. results \in Seq(Nat) /\ Once(results) /\ Primes!ToSet(results) = Joined
  BY <1>0, <1>1 DEF PrimeTypes, ResultInv
<1>3. /\ results' \in Seq(Nat) /\ Primes!ToSet(results') = Joined /\ Once(results')
      /\ Primes!MustSort => Primes!Sorted(results')
      /\ ~Primes!MustSort => results' = results
  <2>1. CASE Primes!MustSort
    <3>1. /\ Primes!sort(results) \in Seq(Nat)
          /\ Primes!ToSet(Primes!sort(results)) = Primes!ToSet(results)
          /\ Primes!Sorted(Primes!sort(results)) /\ Once(Primes!sort(results))
      BY <1>2, SortFacts
    <3>2. results' = Primes!sort(results)
      BY <1>1, <2>1
    <3>. QED BY <1>2, <2>1, <3>1, <3>2
  <2>2. CASE ~Primes!MustSort
    BY <1>1, <1>2, <2>2
  <2>. QED BY <2>1, <2>2
<1>4. joined' \subseteq DOMAIN todo /\ main' \in {"running", "joining", "end"}
  BY <1>1
<1>5. /\ RunTypes' /\ PrimeTypes' /\ ApartInv' /\ WithinInv' /\ CoverInv' /\ FoundInv'
      /\ Primes!Farm' = Primes!Farm /\ Primes!MustSort' = Primes!MustSort
      /\ KeptPart' = KeptPart /\ InPlace' = InPlace
      /\ Kept' = Kept
      /\ \A v \in DOMAIN todo : Has(v)' = Has(v) /\ Seen(v)' = Seen(v)
  BY <1>1, <1>3, <1>4, MainFrame
<1>6. MainInv'
  BY <1>0, <1>1, <1>5 DEF MainInv
<1>7. ResultInv'
  <2>1. Joined' = Joined
    BY <1>1, <1>5 DEF Joined
  <2>. QED BY <1>1, <1>3, <2>1 DEF ResultInv
<1>8. InPlace => Primes!Sorted(results')
  BY <1>0, <1>3 DEF InRowInv, InPlace
<1>9. SortedInv'
  <2>1. run.program # "primes_omp_chunk" => Primes!MustSort \/ InPlace
    BY DEF InPlace
  <2>. QED BY <1>1, <1>3, <1>8, <2>1 DEF SortedInv
<1>10. InRowInv'
  <2>1. SUFFICES ASSUME InPlace PROVE InRowInv'
    BY <1>5 DEF InRowInv
  <2>2. Primes!Sorted(results')
    BY <1>8, <2>1
  <2>. QED BY <1>0, <1>1, <1>5, <2>1, <2>2 DEF InRowInv
<1>. QED
  BY <1>5, <1>6, <1>7, <1>9, <1>10 DEF PrimeParts

(* Every step of the programs.                                              *)
LEMMA PrimeStep ==
  ASSUME PrimeParts, Primes!Next \/ UNCHANGED Primes!vars
  PROVE  PrimeParts'
<1>1. CASE UNCHANGED Primes!vars
  <2>1. /\ PrimeTypes /\ MainInv /\ ResultInv /\ InRowInv /\ SortedInv
    BY DEF PrimeParts
  <2>2. UNCHANGED <<run, senders, todo, chunks, found, joined, results, main>>
    BY <1>1 DEF Primes!vars
  <2>3. joined' \subseteq DOMAIN todo /\ results' \in Seq(Nat) /\ main' \in {"running", "joining", "end"}
    BY <2>1, <2>2 DEF PrimeTypes
  <2>4. /\ RunTypes' /\ PrimeTypes' /\ ApartInv' /\ WithinInv' /\ CoverInv' /\ FoundInv'
        /\ Primes!Farm' = Primes!Farm /\ KeptPart' = KeptPart /\ InPlace' = InPlace
        /\ Kept' = Kept
        /\ \A v \in DOMAIN todo : Has(v)' = Has(v) /\ Seen(v)' = Seen(v)
    BY <2>2, <2>3, MainFrame
  <2>5. MainInv' /\ SortedInv'
    BY <2>1, <2>2, <2>4 DEF MainInv, SortedInv
  <2>6. ResultInv'
    <3>1. \A v \in joined : Seen(v)' = Seen(v)
      BY <2>1, <2>4 DEF PrimeTypes
    <3>2. Joined' = Joined
      BY <2>2, <2>4, <3>1 DEF Joined
    <3>. QED BY <2>1, <2>2, <3>2 DEF ResultInv
  <2>7. InRowInv'
    <3>1. SUFFICES ASSUME InPlace PROVE InRowInv'
      BY <2>4 DEF InRowInv
    <3>. QED BY <2>1, <2>2, <2>4, <3>1 DEF InRowInv
  <2>. QED BY <2>4, <2>5, <2>6, <2>7 DEF PrimeParts
<1>2. CASE Primes!Main
  BY <1>2, JoinStartsStep, EmitterSendsStep, EmitterComputesStep, JoinStep, FinishStep
     DEF Primes!Main, Primes!Worker
<1>3. CASE \E l \in senders : Primes!L_Worker(l)
  BY <1>3, L_WorkerStep
<1>4. CASE \E w \in DOMAIN todo : Primes!WorkerStep(w)
  BY <1>4, SearchStep, TakeChunkStep DEF Primes!WorkerStep
<1>5. CASE Primes!Ended
  BY <1>1, <1>5 DEF Primes!Ended
<1>. QED
  BY <1>1, <1>2, <1>3, <1>4, <1>5 DEF Primes!Next, Primes!Worker

(* How the programs start: the pieces of the range belong to workers,       *)
NewRun(m) ==
  /\ RunTypes /\ main = "running" /\ joined = {} /\ results = <<>>
  /\ DOMAIN todo = 0 .. m - 1 /\ DOMAIN found = 0 .. m - 1
  /\ \A w \in 0 .. m - 1 : found[w] = <<>>

(* Nothing is found when a program starts.                                  *)
LEMMA NewRunFacts ==
  ASSUME NEW m \in Nat \ {0}, NewRun(m)
  PROVE  /\ \A w \in DOMAIN todo : found[w] \in Seq(Nat) /\ Once(found[w]) /\ Seen(w) = {}
                                   /\ Has(w) = Ahead(w) /\ Primes!Sorted(found[w])
         /\ FoundInv /\ ResultInv /\ SortedInv /\ Primes!Sorted(results)
<1>1. Once(<<>>) /\ Primes!ToSet(<<>>) = {} /\ Primes!Sorted(<<>>)
  BY DEF Once, Primes!ToSet, Primes!Sorted
<1>2. \A w \in DOMAIN todo : found[w] = <<>>
  BY DEF NewRun
<1>3. \A w \in DOMAIN todo : found[w] \in Seq(Nat) /\ Once(found[w]) /\ Seen(w) = {}
                             /\ Has(w) = Ahead(w) /\ Primes!Sorted(found[w])
  <2>1. \A w \in DOMAIN todo : Seen(w) = {}
    BY <1>1, <1>2 DEF Seen
  <2>2. \A w \in DOMAIN todo : Has(w) = Ahead(w)
    BY <2>1 DEF Has
  <2>3. <<>> \in Seq(Nat)
    OBVIOUS
  <2>4. \A w \in DOMAIN todo : found[w] \in Seq(Nat) /\ Once(found[w]) /\ Primes!Sorted(found[w])
    BY <1>1, <1>2, <2>3, Zenon
  <2>. QED BY <2>1, <2>2, <2>4
<1>4. main = "running" /\ results = <<>>
  BY DEF NewRun
<1>. QED
  BY <1>1, <1>3, <1>4 DEF FoundInv, ResultInv, SortedInv

(* the pieces of a static schedule to one each,                             *)
Dealt(m, c, p, own) ==
  /\ Splits(p, c, run.n1, run.behind)
  /\ \A k \in 0 .. c - 1 : own[k] \in 0 .. m - 1
  /\ \A w \in 0 .. m - 1 : todo[w] = {p[k] : k \in {j \in 0 .. c - 1 : own[j] = w}}
  /\ InPlace => \A k \in 0 .. c - 1 : own[k] = k

(* A program that deals the parts of its range to its workers.              *)
LEMMA StaticStart ==
  ASSUME NEW m \in Nat \ {0}, NewRun(m), senders = {}, chunks = <<>>, ~Primes!Farm,
         NEW c \in Nat, NEW p, NEW own, Dealt(m, c, p, own)
  PROVE  PrimeParts
<1>0. /\ Splits(p, c, run.n1, run.behind)
      /\ \A k \in 0 .. c - 1 : own[k] \in 0 .. m - 1
      /\ \A w \in 0 .. m - 1 : todo[w] = {p[k] : k \in {j \in 0 .. c - 1 : own[j] = w}}
      /\ InPlace => \A k \in 0 .. c - 1 : own[k] = k
  BY DEF Dealt
<1>1. /\ RunTypes /\ main = "running" /\ joined = {} /\ results = <<>>
      /\ DOMAIN todo = 0 .. m - 1 /\ DOMAIN found = DOMAIN todo
      /\ \A w \in DOMAIN todo : found[w] = <<>>
  BY DEF NewRun
<1>2. /\ \A w \in DOMAIN todo : found[w] \in Seq(Nat) /\ Once(found[w]) /\ Seen(w) = {}
                                   /\ Has(w) = Ahead(w) /\ Primes!Sorted(found[w])
      /\ FoundInv /\ ResultInv /\ SortedInv /\ Primes!Sorted(results)
  BY NewRunFacts
<1>3. run.n1 \in Nat /\ run.behind \in Nat
  BY <1>1 DEF RunTypes
<1>4. \A i, j \in 0 .. c - 1 : /\ Numbers(p[i]) \subseteq Range1
                               /\ i # j => Numbers(p[i]) \cap Numbers(p[j]) = {}
                               /\ i < j => \A x \in Numbers(p[i]) : \A y \in Numbers(p[j]) : x < y
  <2>1. PICK a, b : a = run.n1 /\ b = run.behind
    OBVIOUS
  <2>2. a \in Nat /\ b \in Nat /\ Splits(p, c, a, b) /\ Range1 = a .. b - 1
    BY <1>0, <1>3, <2>1 DEF Range1
  <2>3. \A i, j \in 0 .. c - 1 : /\ Numbers(p[i]) \subseteq a .. b - 1
                                 /\ i # j => Numbers(p[i]) \cap Numbers(p[j]) = {}
                                 /\ i < j => \A x \in Numbers(p[i]) : \A y \in Numbers(p[j]) : x < y
    BY <2>2, SplitApart
  <2>. QED BY <2>2, <2>3, Zenon
<1>5. \A w \in DOMAIN todo : \A q \in todo[w] :
        \E k \in 0 .. c - 1 : own[k] = w /\ q = p[k]
  BY <1>0, <1>1
<1>6. \A w \in DOMAIN todo : \A x \in Has(w) :
        \E k \in 0 .. c - 1 : own[k] = w /\ x \in Numbers(p[k])
  <2>1. \A w \in DOMAIN todo : \A x \in Has(w) : \E q \in todo[w] : x \in Numbers(q)
    BY <1>2 DEF Ahead
  <2>. QED BY <1>5, <2>1
<1>7. Kept = {}
  BY DEF Kept
<1>8. PrimeTypes
  <2>1. \A w \in DOMAIN todo : todo[w] \subseteq Parts
    BY <1>0, <1>5 DEF Splits
  <2>2. \A w \in DOMAIN todo : found[w] \in Seq(Nat)
    BY <1>2
  <2>3. \E n \in Nat \ {0} : DOMAIN todo = 0 .. n - 1
    BY <1>1
  <2>4. chunks \in Seq(Parts) /\ joined \subseteq DOMAIN todo /\ results \in Seq(Nat)
    BY <1>1
  <2>5. DOMAIN found = DOMAIN todo /\ main \in {"running", "joining", "end"}
    BY <1>1
  <2>. QED BY <2>1, <2>2, <2>3, <2>4, <2>5, Zenon DEF PrimeTypes
<1>9. ApartInv
  <2>1. \A w \in DOMAIN todo : Ahead(w) \cap Seen(w) = {}
    BY <1>2
  <2>2. \A w \in DOMAIN todo : \A q, r \in todo[w] : q # r => Numbers(q) \cap Numbers(r) = {}
    <3>1. SUFFICES ASSUME NEW w \in DOMAIN todo, NEW q \in todo[w], NEW r \in todo[w], q # r
                   PROVE  Numbers(q) \cap Numbers(r) = {}
      OBVIOUS
    <3>2. PICK i \in 0 .. c - 1 : q = p[i]
      BY <1>5
    <3>3. PICK j \in 0 .. c - 1 : r = p[j]
      BY <1>5
    <3>4. i # j
      BY <3>1, <3>2, <3>3
    <3>5. Numbers(p[i]) \cap Numbers(p[j]) = {}
      BY <1>4, <3>4
    <3>. QED BY <3>2, <3>3, <3>5
  <2>3. \A v, w \in DOMAIN todo : v # w => Has(v) \cap Has(w) = {}
    <3>1. SUFFICES ASSUME NEW v \in DOMAIN todo, NEW w \in DOMAIN todo, v # w,
                          NEW x \in Has(v), x \in Has(w)
                   PROVE  FALSE
      OBVIOUS
    <3>2. PICK i \in 0 .. c - 1 : own[i] = v /\ x \in Numbers(p[i])
      BY <1>6
    <3>3. PICK j \in 0 .. c - 1 : own[j] = w /\ x \in Numbers(p[j])
      BY <1>6, <3>1
    <3>4. Numbers(p[i]) \cap Numbers(p[j]) = {}
      BY <1>4, <3>1, <3>2, <3>3
    <3>. QED BY <3>2, <3>3, <3>4
  <2>4. \A k \in 1 .. Len(chunks) : FALSE
    OBVIOUS
  <2>. QED BY <1>7, <2>1, <2>2, <2>3, <2>4 DEF ApartInv
<1>10. WithinInv
  <2>1. \A w \in DOMAIN todo : Has(w) \subseteq Range1
    BY <1>4, <1>6
  <2>2. \A k \in 1 .. Len(chunks) : FALSE
    OBVIOUS
  <2>. QED BY <2>1, <2>2 DEF WithinInv
<1>11. CoverInv
  <2>1. ASSUME NEW n \in Range1 PROVE \E w \in DOMAIN todo : n \in Has(w)
    <3>1. PICK k \in 0 .. c - 1 : n \in Numbers(p[k])
      BY <1>0, <2>1 DEF Splits, Range1
    <3>2. PICK w \in DOMAIN todo : own[k] = w
      BY <1>0, <1>1
    <3>3. p[k] \in todo[w]
      BY <1>0, <1>1, <3>2
    <3>. QED BY <1>2, <3>1, <3>3 DEF Ahead
  <2>. QED BY <2>1 DEF CoverInv
<1>12. MainInv
  BY <1>1 DEF MainInv
<1>13. InRowInv
  <2>1. SUFFICES ASSUME InPlace PROVE InRowInv
    BY DEF InRowInv
  <2>2. \A k \in 0 .. c - 1 : own[k] = k
    BY <1>0, <2>1
  <2>3. \A w \in DOMAIN todo : \A q, r \in todo[w] : q = r
    BY <1>5, <2>2
  <2>4. \A v, w \in DOMAIN todo : v < w => \A x \in Has(v) : \A y \in Has(w) : x < y
    BY <1>4, <1>6, <2>2
  <2>. QED BY <1>1, <1>2, <1>7, <2>3, <2>4 DEF InRowInv
<1>. QED
  BY <1>1, <1>2, <1>8, <1>9, <1>10, <1>11, <1>12, <1>13 DEF PrimeParts

(* the chunks of a dynamic one to nobody yet,                               *)
LEMMA DynamicStart ==
  ASSUME NEW m \in Nat \ {0}, NewRun(m), senders = {},
         run.program \in {"primes_omp_dynamic", "primes_parallelfor_dynamic"},
         NEW c \in Nat, NEW p, Splits(p, c, run.n1, run.behind),
         chunks = [k \in 1 .. c |-> p[k - 1]],
         \A w \in 0 .. m - 1 : todo[w] = {}
  PROVE  PrimeParts
<1>1. /\ RunTypes /\ main = "running" /\ joined = {} /\ results = <<>>
      /\ DOMAIN todo = 0 .. m - 1 /\ DOMAIN found = DOMAIN todo
  BY DEF NewRun
<1>2. /\ \A w \in DOMAIN todo : found[w] \in Seq(Nat) /\ Once(found[w]) /\ Seen(w) = {}
                                   /\ Has(w) = Ahead(w) /\ Primes!Sorted(found[w])
      /\ FoundInv /\ ResultInv /\ SortedInv /\ Primes!Sorted(results)
  BY NewRunFacts
<1>3. run.n1 \in Nat /\ run.behind \in Nat /\ ~Primes!Farm /\ ~InPlace
  BY <1>1 DEF RunTypes, Primes!Farm, InPlace, Primes!MustSort
<1>4. \A i, j \in 0 .. c - 1 : /\ Numbers(p[i]) \subseteq Range1
                               /\ i # j => Numbers(p[i]) \cap Numbers(p[j]) = {}
  <2>1. PICK a, b : a = run.n1 /\ b = run.behind
    OBVIOUS
  <2>2. a \in Nat /\ b \in Nat /\ Splits(p, c, a, b) /\ Range1 = a .. b - 1
    BY <1>3, <2>1 DEF Range1
  <2>3. \A i, j \in 0 .. c - 1 : /\ Numbers(p[i]) \subseteq a .. b - 1
                                 /\ i # j => Numbers(p[i]) \cap Numbers(p[j]) = {}
    BY <2>2, SplitApart
  <2>. QED BY <2>2, <2>3, Zenon
<1>5. \A w \in DOMAIN todo : todo[w] = {} /\ Ahead(w) = {} /\ Has(w) = {}
  BY <1>1, <1>2 DEF Ahead
<1>6. Kept = {}
  BY <1>3 DEF Kept
<1>7. \A k \in 1 .. c : k - 1 \in 0 .. c - 1 /\ chunks[k] = p[k - 1] /\ p[k - 1] \in Parts
  BY DEF Splits
<1>8. chunks \in Seq(Parts) /\ Len(chunks) = c
  <2>1. chunks = [k \in 1 .. c |-> chunks[k]] /\ \A k \in 1 .. c : chunks[k] \in Parts
    BY <1>7
  <2>2. chunks \in [1 .. c -> Parts]
    BY <2>1
  <2>. QED BY <2>2
<1>9. PrimeTypes
  BY <1>1, <1>2, <1>5, <1>8 DEF PrimeTypes
<1>10. ApartInv
  <2>1. \A j, k \in 1 .. Len(chunks) : j # k => Numbers(chunks[j]) \cap Numbers(chunks[k]) = {}
    <3>1. SUFFICES ASSUME NEW j \in 1 .. c, NEW k \in 1 .. c, j # k
                   PROVE  Numbers(chunks[j]) \cap Numbers(chunks[k]) = {}
      BY <1>8
    <3>2. j - 1 \in 0 .. c - 1 /\ k - 1 \in 0 .. c - 1 /\ j - 1 # k - 1
      BY <3>1
    <3>3. chunks[j] = p[j - 1] /\ chunks[k] = p[k - 1]
      BY <1>7
    <3>. QED BY <1>4, <3>2, <3>3
  <2>. QED BY <1>5, <1>6, <2>1 DEF ApartInv
<1>11. WithinInv
  BY <1>4, <1>5, <1>7, <1>8 DEF WithinInv
<1>12. CoverInv
  <2>1. ASSUME NEW n \in Range1 PROVE \E k \in 1 .. Len(chunks) : n \in Numbers(chunks[k])
    <3>1. PICK k \in 0 .. c - 1 : n \in Numbers(p[k])
      BY <2>1 DEF Splits, Range1
    <3>2. k + 1 \in 1 .. c /\ (k + 1) - 1 = k
      OBVIOUS
    <3>. QED BY <1>7, <1>8, <3>1, <3>2
  <2>. QED BY <2>1 DEF CoverInv
<1>13. MainInv
  BY <1>1, <1>3 DEF MainInv
<1>14. InRowInv
  BY <1>3 DEF InRowInv
<1>. QED
  BY <1>1, <1>2, <1>9, <1>10, <1>11, <1>12, <1>13, <1>14 DEF PrimeParts

(* and the range to the nodes that hand it out.                             *)
LEMMA SendersStart ==
  ASSUME NEW m \in Nat \ {0}, NewRun(m), chunks = <<>>, senders # {},
         (Primes!Farm /\ senders = {0}) \/ (run.program = "primes_a2a" /\ senders = 0 .. run.nw - 1),
         \A w \in 0 .. m - 1 : todo[w] = {}
  PROVE  PrimeParts
<1>1. /\ RunTypes /\ main = "running" /\ joined = {} /\ results = <<>>
      /\ DOMAIN todo = 0 .. m - 1 /\ DOMAIN found = DOMAIN todo
      /\ \A w \in DOMAIN todo : found[w] = <<>>
  BY DEF NewRun
<1>2. /\ \A w \in DOMAIN todo : found[w] \in Seq(Nat) /\ Once(found[w]) /\ Seen(w) = {}
                                   /\ Has(w) = Ahead(w) /\ Primes!Sorted(found[w])
      /\ FoundInv /\ ResultInv /\ SortedInv /\ Primes!Sorted(results)
  BY NewRunFacts
<1>3. /\ run.n1 \in Nat /\ run.n2 \in Nat /\ run.n1 <= run.n2 /\ run.nw \in Nat \ {0}
      /\ run.behind = run.n2
  BY <1>1 DEF RunTypes
<1>4. \A w \in DOMAIN todo : todo[w] = {} /\ Ahead(w) = {} /\ Has(w) = {}
  BY <1>1, <1>2 DEF Ahead
<1>5. Kept = {} /\ \A k \in 1 .. Len(chunks) : FALSE
  BY DEF Kept
<1>6. PrimeTypes
  BY <1>1, <1>2, <1>4 DEF PrimeTypes
<1>7. ApartInv
  BY <1>4, <1>5 DEF ApartInv
<1>8. WithinInv
  BY <1>4, <1>5 DEF WithinInv
<1>9. CoverInv
  <2>1. ASSUME NEW n \in Range1 PROVE \E l \in senders : n \in Numbers(UnsentPart(l))
    <3>1. CASE Primes!Farm /\ senders = {0}
      <4>1. UnsentPart(0) = <<run.n1, run.n2>>
        BY <3>1 DEF UnsentPart, Primes!Farm
      <4>2. Numbers(UnsentPart(0)) = Range1
        BY <1>3, <4>1 DEF Numbers, Range1
      <4>. QED BY <2>1, <3>1, <4>2
    <3>2. CASE run.program = "primes_a2a" /\ senders = 0 .. run.nw - 1
      <4>1a. PICK a, b, w : a = run.n1 /\ b = run.n2 /\ w = run.nw
        OBVIOUS
      <4>1b. PICK p : p = [i \in 0 .. w - 1 |-> Primes!Part(a, b, w, i)]
        OBVIOUS
      <4>1. /\ a = run.n1 /\ b = run.n2 /\ w = run.nw
            /\ p = [i \in 0 .. w - 1 |-> Primes!Part(a, b, w, i)]
        BY <4>1a, <4>1b
      <4>2. Splits(p, w, a, b)
        <5>1. a \in Nat /\ b \in Nat /\ a <= b /\ w \in Nat \ {0}
          BY <1>3, <4>1
        <5>2. \A i \in 0 .. w - 1 : p[i] = Primes!Part(a, b, w, i)
          BY <4>1
        <5>. QED BY <5>1, <5>2, PartSplits
      <4>3. n \in a .. b - 1
        BY <1>3, <2>1, <4>1 DEF Range1
      <4>4. PICK i \in 0 .. w - 1 : n \in Numbers(p[i])
        BY <4>2, <4>3 DEF Splits
      <4>5. UnsentPart(i) = p[i]
        BY <3>2, <4>1 DEF UnsentPart
      <4>. QED BY <3>2, <4>1, <4>4, <4>5
    <3>. QED BY <3>1, <3>2
  <2>. QED BY <2>1 DEF CoverInv
<1>10. MainInv
  BY <1>1, <1>4 DEF MainInv
<1>11. InRowInv
  BY <1>1, <1>2, <1>4, <1>5 DEF InRowInv
<1>. QED
  BY <1>1, <1>2, <1>6, <1>7, <1>8, <1>9, <1>10, <1>11 DEF PrimeParts

(* The whole range at once,                                                 *)
LEMMA WholeStart ==
  ASSUME NewRun(1), senders = {}, chunks = <<>>, ~Primes!Farm,
         todo = [w \in {0} |-> {<<run.n1, run.behind>>}]
  PROVE  PrimeParts
<1>1. PICK a, b : a = run.n1 /\ b = run.behind
  OBVIOUS
<1>2. a \in Nat /\ b \in Nat /\ a <= b
  BY <1>1 DEF NewRun, RunTypes
<1>3. PICK p, own : p = [k \in {0} |-> <<a, b>>] /\ own = [k \in {0} |-> 0]
  OBVIOUS
<1>4. 0 .. 1 - 1 = {0} /\ 1 \in Nat /\ p[0] = <<a, b>> /\ own[0] = 0
  BY <1>3
<1>5. Splits(p, 1, a, b)
  <2>1. <<a, b>> \in Parts /\ Numbers(<<a, b>>) = a .. b - 1
    BY <1>2 DEF Parts, Numbers
  <2>. QED BY <1>2, <1>4, <2>1 DEF Splits
<1>6. /\ \A k \in 0 .. 1 - 1 : own[k] \in 0 .. 1 - 1 /\ own[k] = k
      /\ \A w \in 0 .. 1 - 1 : todo[w] = {p[k] : k \in {j \in 0 .. 1 - 1 : own[j] = w}}
  BY <1>1, <1>4
<1>7. Splits(p, 1, run.n1, run.behind)
  BY <1>1, <1>5
<1>. QED
  BY <1>4, <1>6, <1>7, StaticStart DEF Dealt

(* in equal parts,                                                          *)
LEMMA StaticPartsStart ==
  ASSUME NEW m \in Nat \ {0}, NewRun(m), senders = {}, chunks = <<>>, ~Primes!Farm,
         todo = Primes!StaticParts(run.n1, run.behind, m)
  PROVE  PrimeParts
<1>1. PICK a, b : a = run.n1 /\ b = run.behind
  OBVIOUS
<1>2. a \in Nat /\ b \in Nat /\ a <= b
  BY <1>1 DEF NewRun, RunTypes
<1>3. PICK p, own : /\ p = [k \in 0 .. m - 1 |-> Primes!Part(a, b, m, k)]
                    /\ own = [k \in 0 .. m - 1 |-> k]
  OBVIOUS
<1>4. Splits(p, m, a, b)
  <2>1. \A k \in 0 .. m - 1 : p[k] = Primes!Part(a, b, m, k)
    BY <1>3
  <2>. QED BY <1>2, <2>1, PartSplits
<1>5. /\ \A k \in 0 .. m - 1 : own[k] \in 0 .. m - 1 /\ own[k] = k
      /\ \A w \in 0 .. m - 1 : todo[w] = {p[k] : k \in {j \in 0 .. m - 1 : own[j] = w}}
  <2>1. \A w \in 0 .. m - 1 : todo[w] = {Primes!Part(a, b, m, w)}
    BY <1>1 DEF Primes!StaticParts
  <2>2. \A k \in 0 .. m - 1 : own[k] = k /\ p[k] = Primes!Part(a, b, m, k)
    BY <1>3
  <2>. QED BY <2>1, <2>2
<1>6. Splits(p, m, run.n1, run.behind) /\ m \in Nat
  BY <1>1, <1>4
<1>7. Dealt(m, m, p, own)
  BY <1>5, <1>6, Zenon DEF Dealt
<1>8. m \in Nat
  OBVIOUS
<1>. QED
  BY <1>7, <1>8, StaticStart

(* and in chunks, dealt in turn                                             *)
LEMMA StaticChunksStart ==
  ASSUME NEW m \in Nat \ {0}, NewRun(m), senders = {}, chunks = <<>>, ~Primes!Farm, ~InPlace,
         todo = Primes!StaticChunks(run.n1, run.behind, m)
  PROVE  PrimeParts
<1>1. PICK a, b : a = run.n1 /\ b = run.behind
  OBVIOUS
<1>2. a \in Nat /\ b \in Nat /\ a <= b
  BY <1>1 DEF NewRun, RunTypes
<1>3. PICK c : c = Primes!Chunks(a, b)
  OBVIOUS
<1>4. PICK p, own : /\ p = [k \in 0 .. c - 1 |-> Primes!Chunk(a, b, k)]
                    /\ own = [k \in 0 .. c - 1 |-> k % m]
  OBVIOUS
<1>5. c \in Nat /\ Splits(p, c, a, b)
  <2>1. \A k \in 0 .. Primes!Chunks(a, b) - 1 : p[k] = Primes!Chunk(a, b, k)
    BY <1>3, <1>4
  <2>. QED BY <1>2, <1>3, <2>1, ChunkSplits
<1>6. \A k \in 0 .. c - 1 : own[k] \in 0 .. m - 1
  <2>1. ASSUME NEW k \in 0 .. c - 1 PROVE k % m \in 0 .. m - 1
    <3>1. k \in Nat
      BY <1>5
    <3>. QED BY <3>1, Division
  <2>. QED BY <1>4, <2>1
<1>7. \A w \in 0 .. m - 1 : todo[w] = {p[k] : k \in {j \in 0 .. c - 1 : own[j] = w}}
  <2>1. ASSUME NEW w \in 0 .. m - 1
        PROVE  todo[w] = {Primes!Chunk(a, b, k) : k \in {j \in 0 .. c - 1 : j % m = w}}
    BY <1>1, <1>3 DEF Primes!StaticChunks
  <2>2. \A k \in 0 .. c - 1 : own[k] = k % m /\ p[k] = Primes!Chunk(a, b, k)
    BY <1>4
  <2>. QED BY <2>1, <2>2
<1>8. Splits(p, c, run.n1, run.behind)
  BY <1>1, <1>5
<1>9. Dealt(m, c, p, own)
  BY <1>6, <1>7, <1>8, Zenon DEF Dealt
<1>. QED
  BY <1>5, <1>9, StaticStart

(* or to whoever asks.                                                      *)
LEMMA DynamicChunksStart ==
  ASSUME NEW m \in Nat \ {0}, NewRun(m), senders = {},
         run.program \in {"primes_omp_dynamic", "primes_parallelfor_dynamic"},
         chunks = Primes!DynamicChunks(run.n1, run.behind),
         \A w \in 0 .. m - 1 : todo[w] = {}
  PROVE  PrimeParts
<1>1. PICK a, b : a = run.n1 /\ b = run.behind
  OBVIOUS
<1>2. a \in Nat /\ b \in Nat /\ a <= b
  BY <1>1 DEF NewRun, RunTypes
<1>3. PICK c : c = Primes!Chunks(a, b)
  OBVIOUS
<1>4. PICK p : p = [k \in 0 .. c - 1 |-> Primes!Chunk(a, b, k)]
  OBVIOUS
<1>5. c \in Nat /\ Splits(p, c, a, b)
  <2>1. \A k \in 0 .. Primes!Chunks(a, b) - 1 : p[k] = Primes!Chunk(a, b, k)
    BY <1>3, <1>4
  <2>. QED BY <1>2, <1>3, <2>1, ChunkSplits
<1>6. chunks = [k \in 1 .. c |-> p[k - 1]]
  <2>1. chunks = [k \in 1 .. c |-> Primes!Chunk(a, b, k - 1)]
    BY <1>1, <1>3 DEF Primes!DynamicChunks
  <2>2. \A k \in 1 .. c : p[k - 1] = Primes!Chunk(a, b, k - 1)
    <3>1. \A k \in 1 .. c : k - 1 \in 0 .. c - 1
      BY <1>5
    <3>. QED BY <1>4, <3>1
  <2>. QED BY <2>1, <2>2
<1>7. Splits(p, c, run.n1, run.behind)
  BY <1>1, <1>5
<1>. QED
  BY <1>5, <1>6, <1>7, DynamicStart

(* What a program starts with.                                              *)
LEMMA StartFields ==
  ASSUME NEW w, NEW p, NEW s, NEW b
  PROVE  /\ Primes!Start(w, p, s, b).todo = w /\ Primes!Start(w, p, s, b).pool = p
         /\ Primes!Start(w, p, s, b).senders = s /\ Primes!Start(w, p, s, b).behind = b
BY DEF Primes!Start

(* What a program starts with, by what Start says of it: parts w, chunks p, *)
(* senders s, m workers, and b behind the last number.                      *)
Begun(q, r, n, k, w, p, s, b, m) ==
  /\ q \in Primes!Programs /\ r \in Ranges /\ n \in 1 .. MaxWorkers /\ k \in 1 .. MaxWorkers
  /\ Primes!InitWith(q, r, n, k) /\ m \in Nat \ {0} /\ DOMAIN w = 0 .. m - 1
  /\ Primes!StartOf(q, r[1], r[2], n, k) = Primes!Start(w, p, s, b)
  /\ b \in {r[2], r[2] + 1}
  /\ q = "primes_a2a" \/ (q = "primes_master_worker" /\ n > 1) => b = r[2]

(* What it has in its variables then.                                       *)
LEMMA NewRunStart ==
  ASSUME NEW q, NEW r, NEW n, NEW k, NEW w, NEW p, NEW s, NEW b, NEW m,
         Begun(q, r, n, k, w, p, s, b, m)
  PROVE  /\ todo = w /\ chunks = p /\ senders = s
         /\ run.program = q /\ run.n1 = r[1] /\ run.n2 = r[2] /\ run.nw = n /\ run.behind = b
         /\ NewRun(m)
<1>0. /\ q \in Primes!Programs /\ r \in Ranges /\ n \in 1 .. MaxWorkers /\ k \in 1 .. MaxWorkers
      /\ Primes!InitWith(q, r, n, k) /\ m \in Nat \ {0} /\ DOMAIN w = 0 .. m - 1
      /\ Primes!StartOf(q, r[1], r[2], n, k) = Primes!Start(w, p, s, b)
      /\ b \in {r[2], r[2] + 1}
      /\ q = "primes_a2a" \/ (q = "primes_master_worker" /\ n > 1) => b = r[2]
  BY DEF Begun
<1>1. /\ run = [program |-> q, n1 |-> r[1], n2 |-> r[2], nw |-> n, behind |-> b]
      /\ todo = w /\ chunks = p /\ senders = s
      /\ found = [v \in DOMAIN w |-> <<>>]
      /\ joined = {} /\ results = <<>> /\ main = "running"
  BY <1>0, StartFields DEF Primes!InitWith
<1>2. run.program = q /\ run.n1 = r[1] /\ run.n2 = r[2] /\ run.nw = n /\ run.behind = b
  BY <1>1
<1>3. RunTypes
  <2>1. r[1] \in Nat /\ r[2] \in Nat /\ r[1] <= r[2] /\ n \in Nat \ {0}
    BY <1>0, RangesAssumption
  <2>2. run.behind = run.n2 \/ run.behind = run.n2 + 1
    BY <1>0, <1>2
  <2>3. run.program = "primes_a2a" \/ Primes!Farm => run.behind = run.n2
    <3>1. q = "primes_a2a" => b = r[2]
      BY <1>0
    <3>2. q = "primes_master_worker" /\ n > 1 => b = r[2]
      BY <1>0
    <3>3. Primes!Farm => q = "primes_master_worker" /\ n > 1
      BY <1>2 DEF Primes!Farm
    <3>. QED BY <1>2, <3>1, <3>2, <3>3
  <2>4. run.n1 \in Nat /\ run.n2 \in Nat /\ run.n1 <= run.n2 /\ run.nw \in Nat \ {0}
        /\ run.program \in Primes!Programs
    BY <1>0, <1>2, <2>1
  <2>. QED BY <2>2, <2>3, <2>4 DEF RunTypes
<1>. QED
  BY <1>0, <1>1, <1>2, <1>3 DEF NewRun

(* Every program starts in the invariant.                                   *)
LEMMA PrimeStart ==
  ASSUME Primes!Init
  PROVE  PrimeParts
<1>1. PICK q \in Primes!Programs, r \in Ranges, n \in 1 .. MaxWorkers, k \in 1 .. MaxWorkers :
        Primes!InitWith(q, r, n, k)
  BY DEF Primes!Init
<1>2. PICK a, b : a = r[1] /\ b = r[2]
  OBVIOUS
<1>3. a \in Nat /\ b \in Nat /\ a <= b /\ n \in Nat \ {0} /\ k \in Nat \ {0}
  BY <1>2, RangesAssumption
<1>4. \A S : \A w \in 0 .. n - 1 : [v \in 0 .. n - 1 |-> S][w] = S
  OBVIOUS
(* The fields of the program, given what it starts with.                    *)
<1>5. ASSUME NEW w, NEW p, NEW s, NEW e, NEW m \in Nat \ {0},
             Primes!StartOf(q, a, b, n, k) = Primes!Start(w, p, s, e),
             DOMAIN w = 0 .. m - 1, e \in {b, b + 1},
             q = "primes_a2a" \/ (q = "primes_master_worker" /\ n > 1) => e = b
      PROVE  /\ todo = w /\ chunks = p /\ senders = s
             /\ run.program = q /\ run.n1 = a /\ run.n2 = b /\ run.nw = n /\ run.behind = e
             /\ NewRun(m)
  <2>1. Primes!StartOf(q, r[1], r[2], n, k) = Primes!Start(w, p, s, e)
    BY <1>2, <1>5
  <2>2. e \in {r[2], r[2] + 1}
    BY <1>2, <1>5
  <2>3. q = "primes_a2a" \/ (q = "primes_master_worker" /\ n > 1) => e = r[2]
    BY <1>2, <1>5
  <2>4. Primes!InitWith(q, r, n, k)
    BY <1>1
  <2>5. DOMAIN w = 0 .. m - 1
    BY <1>5
  <2>6. q \in Primes!Programs /\ r \in Ranges /\ n \in 1 .. MaxWorkers /\ k \in 1 .. MaxWorkers
        /\ m \in Nat \ {0}
    BY <1>1, <1>5
  <2>7. /\ todo = w /\ chunks = p /\ senders = s
        /\ run.program = q /\ run.n1 = r[1] /\ run.n2 = r[2] /\ run.nw = n /\ run.behind = e
        /\ NewRun(m)
    <3>1. Begun(q, r, n, k, w, p, s, e, m)
      BY <2>1, <2>2, <2>3, <2>4, <2>5, <2>6 DEF Begun
    <3>. QED BY <3>1, NewRunStart
  <2>. QED BY <1>2, <2>7
(* The whole range.                                                         *)
<1>6. ASSUME NEW e \in {b, b + 1},
             Primes!StartOf(q, a, b, n, k) = Primes!Start([w \in {0} |-> {<<a, e>>}], <<>>, {}, e),
             q # "primes_a2a", ~(q = "primes_master_worker" /\ n > 1)
      PROVE  PrimeParts
  <2>1. DOMAIN [w \in {0} |-> {<<a, e>>}] = 0 .. 1 - 1 /\ 1 \in Nat \ {0}
    OBVIOUS
  <2>2. /\ todo = [w \in {0} |-> {<<a, e>>}] /\ chunks = <<>> /\ senders = {}
        /\ run.program = q /\ run.n1 = a /\ run.nw = n /\ run.behind = e
        /\ NewRun(1)
    BY <1>5, <1>6, <2>1
  <2>3. ~Primes!Farm
    BY <1>6, <2>2 DEF Primes!Farm
  <2>4. todo = [w \in {0} |-> {<<run.n1, run.behind>>}]
    BY <2>2
  <2>. QED BY <2>2, <2>3, <2>4, WholeStart
(* A static schedule.                                                       *)
<1>7. ASSUME NEW e \in {b, b + 1},
             Primes!StartOf(q, a, b, n, k) = Primes!Start(Primes!StaticParts(a, e, n), <<>>, {}, e),
             q # "primes_a2a", q # "primes_master_worker"
      PROVE  PrimeParts
  <2>1. DOMAIN Primes!StaticParts(a, e, n) = 0 .. n - 1
    BY DEF Primes!StaticParts
  <2>2. /\ todo = Primes!StaticParts(a, e, n) /\ chunks = <<>> /\ senders = {}
        /\ run.program = q /\ run.n1 = a /\ run.behind = e
        /\ NewRun(n)
    BY <1>3, <1>5, <1>7, <2>1
  <2>3. ~Primes!Farm
    BY <1>7, <2>2 DEF Primes!Farm
  <2>4. todo = Primes!StaticParts(run.n1, run.behind, n)
    BY <2>2
  <2>. QED BY <1>3, <2>2, <2>3, <2>4, StaticPartsStart
<1>8. ASSUME NEW e \in {b, b + 1},
             Primes!StartOf(q, a, b, n, k) = Primes!Start(Primes!StaticChunks(a, e, n), <<>>, {}, e),
             q \in {"primes_omp_chunk", "primes_parallelfor_chunk"}
      PROVE  PrimeParts
  <2>1. DOMAIN Primes!StaticChunks(a, e, n) = 0 .. n - 1
    BY DEF Primes!StaticChunks
  <2>2. /\ todo = Primes!StaticChunks(a, e, n) /\ chunks = <<>> /\ senders = {}
        /\ run.program = q /\ run.n1 = a /\ run.behind = e
        /\ NewRun(n)
    BY <1>3, <1>5, <1>8, <2>1
  <2>3. ~Primes!Farm /\ ~InPlace
    BY <1>8, <2>2 DEF Primes!Farm, InPlace, Primes!MustSort
  <2>4. todo = Primes!StaticChunks(run.n1, run.behind, n)
    BY <2>2
  <2>. QED BY <1>3, <2>2, <2>3, <2>4, StaticChunksStart
(* A dynamic one.                                                           *)
<1>9. ASSUME NEW e \in {b, b + 1},
             Primes!StartOf(q, a, b, n, k)
               = Primes!Start(Primes!Nothing(n), Primes!DynamicChunks(a, e), {}, e),
             q \in {"primes_omp_dynamic", "primes_parallelfor_dynamic"}
      PROVE  PrimeParts
  <2>1. DOMAIN Primes!Nothing(n) = 0 .. n - 1
    BY DEF Primes!Nothing
  <2>2. /\ todo = Primes!Nothing(n) /\ chunks = Primes!DynamicChunks(a, e) /\ senders = {}
        /\ run.program = q /\ run.n1 = a /\ run.behind = e
        /\ NewRun(n)
    BY <1>3, <1>5, <1>9, <2>1
  <2>3. \A w \in 0 .. n - 1 : todo[w] = {}
    BY <2>2 DEF Primes!Nothing
  <2>4. chunks = Primes!DynamicChunks(run.n1, run.behind)
    BY <2>2
  <2>5. run.program \in {"primes_omp_dynamic", "primes_parallelfor_dynamic"}
    BY <1>9, <2>2
  <2>. QED BY <1>3, <2>2, <2>3, <2>4, <2>5, DynamicChunksStart
(* The farm and the all-to-all.                                             *)
<1>10. ASSUME q = "primes_master_worker", n > 1,
              Primes!StartOf(q, a, b, n, k) = Primes!Start(Primes!Nothing(n - 1), <<>>, {0}, b)
       PROVE  PrimeParts
  <2>1. DOMAIN Primes!Nothing(n - 1) = 0 .. (n - 1) - 1
    BY DEF Primes!Nothing
  <2>2. n - 1 \in Nat \ {0}
    BY <1>3, <1>10
  <2>3. /\ todo = Primes!Nothing(n - 1) /\ chunks = <<>> /\ senders = {0}
        /\ run.program = q /\ run.nw = n
        /\ NewRun(n - 1)
    BY <1>5, <1>10, <2>1, <2>2
  <2>4. \A w \in 0 .. (n - 1) - 1 : todo[w] = {}
    BY <2>3 DEF Primes!Nothing
  <2>5. Primes!Farm /\ senders # {}
    BY <1>10, <2>3 DEF Primes!Farm
  <2>. QED BY <2>2, <2>3, <2>4, <2>5, SendersStart
<1>11. ASSUME q = "primes_a2a",
              Primes!StartOf(q, a, b, n, k) = Primes!Start(Primes!Nothing(k), <<>>, 0 .. n - 1, b)
       PROVE  PrimeParts
  <2>1. DOMAIN Primes!Nothing(k) = 0 .. k - 1
    BY DEF Primes!Nothing
  <2>2. /\ todo = Primes!Nothing(k) /\ chunks = <<>> /\ senders = 0 .. n - 1
        /\ run.program = q /\ run.nw = n
        /\ NewRun(k)
    BY <1>3, <1>5, <1>11, <2>1
  <2>3. \A w \in 0 .. k - 1 : todo[w] = {}
    BY <2>2 DEF Primes!Nothing
  <2>4. run.program = "primes_a2a" /\ senders = 0 .. run.nw - 1 /\ senders # {}
    <3>1. 0 \in 0 .. n - 1
      BY <1>3
    <3>. QED BY <1>11, <2>2, <3>1
  <2>. QED BY <1>3, <2>2, <2>3, <2>4, SendersStart
(* Which program is which.                                                  *)
<1>12. CASE q = "primes"
  <2>1. Primes!StartOf(q, a, b, n, k) = Primes!Start([w \in {0} |-> {<<a, b + 1>>}], <<>>, {}, b + 1)
    BY <1>12 DEF Primes!StartOf, Primes!primes
  <2>. QED BY <1>6, <1>12, <2>1
<1>13. CASE q = "PDS_primes"
  <2>1. Primes!StartOf(q, a, b, n, k) = Primes!Start([w \in {0} |-> {<<a, b>>}], <<>>, {}, b)
    BY <1>13 DEF Primes!StartOf, Primes!PDS_primes
  <2>. QED BY <1>6, <1>13, <2>1
<1>14. CASE q = "primes_omp"
  <2>1. Primes!StartOf(q, a, b, n, k) = Primes!Start(Primes!StaticParts(a, b, n), <<>>, {}, b)
    BY <1>14 DEF Primes!StartOf, Primes!primes_omp
  <2>. QED BY <1>7, <1>14, <2>1
<1>15. CASE q = "primes_omp_chunk"
  <2>1. Primes!StartOf(q, a, b, n, k) = Primes!Start(Primes!StaticChunks(a, b, n), <<>>, {}, b)
    BY <1>15 DEF Primes!StartOf, Primes!primes_omp_chunk
  <2>. QED BY <1>8, <1>15, <2>1
<1>16. CASE q = "primes_omp_dynamic"
  <2>1. Primes!StartOf(q, a, b, n, k)
          = Primes!Start(Primes!Nothing(n), Primes!DynamicChunks(a, b), {}, b)
    BY <1>16 DEF Primes!StartOf, Primes!primes_omp_dynamic
  <2>. QED BY <1>9, <1>16, <2>1
<1>17. CASE q = "primes_parallelfor"
  <2>1. Primes!StartOf(q, a, b, n, k)
          = Primes!Start(Primes!StaticParts(a, b + 1, n), <<>>, {}, b + 1)
    BY <1>17 DEF Primes!StartOf, Primes!primes_parallelfor
  <2>. QED BY <1>7, <1>17, <2>1
<1>18. CASE q = "primes_parallelfor_chunk"
  <2>1. Primes!StartOf(q, a, b, n, k)
          = Primes!Start(Primes!StaticChunks(a, b + 1, n), <<>>, {}, b + 1)
    BY <1>18 DEF Primes!StartOf, Primes!primes_parallelfor_chunk
  <2>. QED BY <1>8, <1>18, <2>1
<1>19. CASE q = "primes_parallelfor_dynamic"
  <2>1. Primes!StartOf(q, a, b, n, k)
          = Primes!Start(Primes!Nothing(n), Primes!DynamicChunks(a, b + 1), {}, b + 1)
    BY <1>19 DEF Primes!StartOf, Primes!primes_parallelfor_dynamic
  <2>. QED BY <1>9, <1>19, <2>1
<1>20. CASE q = "primes_master_worker"
  <2>1. Primes!StartOf(q, a, b, n, k) = Primes!primes_master_worker(a, b, n)
    BY <1>20 DEF Primes!StartOf
  <2>2. CASE n = 1
    <3>1. Primes!StartOf(q, a, b, n, k)
            = Primes!Start([w \in {0} |-> {<<a, b + 1>>}], <<>>, {}, b + 1)
      BY <2>1, <2>2 DEF Primes!primes_master_worker, Primes!primes
    <3>. QED BY <1>6, <1>20, <2>2, <3>1
  <2>3. CASE n # 1
    <3>1. Primes!StartOf(q, a, b, n, k) = Primes!Start(Primes!Nothing(n - 1), <<>>, {0}, b)
      BY <2>1, <2>3 DEF Primes!primes_master_worker
    <3>2. n > 1
      BY <1>3, <2>3
    <3>. QED BY <1>10, <1>20, <3>1, <3>2
  <2>. QED BY <2>2, <2>3
<1>21. CASE q = "primes_a2a"
  <2>1. Primes!StartOf(q, a, b, n, k) = Primes!Start(Primes!Nothing(k), <<>>, 0 .. n - 1, b)
    BY <1>21 DEF Primes!StartOf, Primes!primes_a2a
  <2>. QED BY <1>11, <1>21, <2>1
<1>. QED
  BY <1>12, <1>13, <1>14, <1>15, <1>16, <1>17, <1>18, <1>19, <1>20, <1>21 DEF Primes!Programs
(* At the end every place but the results is empty.                         *)
LEMMA PrimesAtEnd ==
  ASSUME PrimeParts
  PROVE  Primes!PrimesFound /\ Primes!InOrder
<1>0. /\ RunTypes /\ PrimeTypes /\ WithinInv /\ CoverInv /\ FoundInv /\ MainInv
      /\ ResultInv /\ SortedInv
  BY DEF PrimeParts
<1>1. SUFFICES ASSUME main = "end"
               PROVE  /\ Primes!ToSet(results) = {n \in Range1 : Primes!Prime(n)}
                      /\ Primes!Cardinality(Primes!ToSet(results)) = Len(results)
  BY <1>0 DEF Primes!PrimesFound, Primes!InOrder, SortedInv, Range1
<1>2. /\ joined = DOMAIN todo /\ senders = {} /\ results \in Seq(Nat)
      /\ Once(results) /\ Primes!ToSet(results) = Joined
  BY <1>0, <1>1 DEF MainInv, ResultInv, PrimeTypes
<1>3. \A w \in DOMAIN todo : todo[w] = {} /\ Ahead(w) = {} /\ Has(w) = Seen(w)
  BY <1>0, <1>2 DEF MainInv, Ahead, Has
<1>4. \A k \in 1 .. Len(chunks) : FALSE
  <2>1. PICK m \in Nat \ {0} : DOMAIN todo = 0 .. m - 1
    BY <1>0 DEF PrimeTypes
  <2>2. 0 \in DOMAIN todo
    BY <2>1
  <2>3. chunks = <<>>
    BY <1>0, <1>2, <2>2 DEF MainInv
  <2>. QED BY <2>3
<1>5. Range1 \subseteq Nat /\ \A n \in Range1 : Primes!is_prime(n) <=> Primes!Prime(n)
  <2>1. Range1 \subseteq Nat
    BY <1>0 DEF RunTypes, Range1
  <2>. QED BY <2>1, PrimeTest
<1>6. Kept = IF Primes!Farm THEN Numbers(KeptPart) ELSE {}
  BY <1>2 DEF Kept
<1>7. Kept \subseteq Range1
  <2>1. CASE Primes!Farm
    <3>1. KeptPart[1] = run.n1 /\ KeptPart \in Parts /\ KeptPart[2] <= run.n2
      BY <1>0, KeptFacts
    <3>2. run.behind = run.n2 /\ run.n1 \in Nat /\ run.n2 \in Nat
      BY <1>0, <2>1 DEF RunTypes
    <3>3. KeptPart[2] \in Nat
      BY <3>1 DEF Parts
    <3>4. Kept = KeptPart[1] .. KeptPart[2] - 1
      BY <1>6, <2>1 DEF Numbers
    <3>. QED BY <3>1, <3>2, <3>3, <3>4 DEF Range1
  <2>2. CASE ~Primes!Farm
    BY <1>6, <2>2
  <2>. QED BY <2>1, <2>2
<1>8. Joined = {n \in Kept : Primes!is_prime(n)} \cup UNION {Seen(w) : w \in DOMAIN todo}
  BY <1>2, <1>6 DEF Joined
<1>9. \A w \in DOMAIN todo : Seen(w) \subseteq Range1 /\ \A x \in Seen(w) : Primes!is_prime(x)
  BY <1>0, <1>3 DEF WithinInv, FoundInv
<1>10. \A n \in Range1 : Primes!is_prime(n) => n \in Kept \/ \E w \in DOMAIN todo : n \in Seen(w)
  BY <1>0, <1>2, <1>3, <1>4 DEF CoverInv
<1>11. Primes!ToSet(results) = {n \in Range1 : Primes!Prime(n)}
  <2>1. Joined = {n \in Range1 : Primes!is_prime(n)}
    BY <1>7, <1>8, <1>9, <1>10
  <2>. QED BY <1>2, <1>5, <2>1
<1>12. Primes!Cardinality(Primes!ToSet(results)) = Len(results)
  BY <1>2, OnceLength, PrimesCardinality
<1>. QED
  BY <1>11, <1>12

-----------------------------------------------------------------------------
(* The primes inside the programs of the module.                            *)
PrimeInv == family = "primes" => PrimeParts

(* Whatever program runs, a step of the module is a step of the primes or   *)
(* leaves them alone.                                                       *)
LEMMA PrimesAlways == AllSpec => []PrimeInv
<1>1. AllInit => PrimeInv
  BY PrimeStart DEF AllInit, PrimeInv
<1>2. ASSUME PrimeInv, [AllNext]_allVars
      PROVE  PrimeInv'
  <2>1. family' = family
    BY <1>2 DEF AllNext, OpenMPStep, FarmStep, PrimesStep, allVars
  <2>2. CASE family = "primes"
    <3>1. Primes!Next \/ UNCHANGED Primes!vars
      BY <1>2, <2>2 DEF AllNext, OpenMPStep, FarmStep, PrimesStep, allVars, primesVars, Primes!vars
    <3>. QED BY <1>2, <2>1, <2>2, <3>1, PrimeStep DEF PrimeInv
  <2>3. CASE family # "primes"
    BY <2>1, <2>3 DEF PrimeInv
  <2>. QED BY <2>2, <2>3
<1>. QED
  BY <1>1, <1>2, PTL DEF AllSpec

(* primes*.cpp: every program finds every prime of its range, once, and     *)
(* nothing else, and lists them in order, for every range, every number of  *)
(* workers and every size of the chunks.                                    *)
THEOREM EveryPrimeFound == AllSpec => []PrimesFound
<1>1. PrimeInv => PrimesFound
  BY PrimesAtEnd DEF PrimeInv, PrimesFound
<1>. QED
  BY <1>1, PrimesAlways, PTL
=============================================================================
