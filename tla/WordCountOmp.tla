------------------------------ MODULE WordCountOmp -----------------------------
(***************************************************************************)
(* The OpenMP word counts.                                                 *)
(*   "for"   Word-Count-par-for.cpp counts the files three times, by a     *)
(*           parallel for into a map of its own: merging a map per file in *)
(*           one critical section, with a critical section per token, and  *)
(*           with a mutex per token.                                       *)
(*   "file"  Word-Count-omp-file.cpp creates a task per file.              *)
(*   "line"  Word-Count-omp-line.cpp creates a task per non-empty line.    *)
(* The map all threads share is updated inside a critical section (or      *)
(* under a mutex), one word at a time, a read and a write of its counter.  *)
(***************************************************************************)
EXTENDS WordCount, FiniteSetsExt

CONSTANTS
  Thread,
  NoThread

ASSUME ThreadAssumption == IsFiniteSet(Thread) /\ NoThread \notin Thread

VARIABLES
  UM,       \* the shared map
  lock,     \* the thread inside the critical section, or NoThread
  pc,       \* "idle", "enter", "read" or "write"
  delta,    \* delta[t]: what t still has to add to UM
  word,     \* word[t]: the counter t is updating
  reg       \* reg[t]: the value t has read from it

criticalVars == <<UM, lock, pc, delta, word, reg>>

CriticalInit ==
  /\ UM = Zero
  /\ lock = NoThread
  /\ pc = [t \in Thread |-> "idle"]
  /\ delta = [t \in Thread |-> Zero]
  /\ word = [t \in Thread |-> CHOOSE w \in Word : TRUE]
  /\ reg = [t \in Thread |-> 0]

(* t has something to merge.                                                *)
Merge(t, counts) ==
  /\ delta' = [delta EXCEPT ![t] = counts]
  /\ pc' = [pc EXCEPT ![t] = "enter"]
  /\ UNCHANGED <<UM, lock, word, reg>>

(* Mutant: no critical section.                                             *)
MutMayEnter == TRUE

MayEnter == lock = NoThread

Enter(t) ==
  /\ pc[t] = "enter" /\ MayEnter
  /\ lock' = t
  /\ pc' = [pc EXCEPT ![t] = "read"]
  /\ UNCHANGED <<UM, delta, word, reg>>

(* The words of an unordered_map come in any order.                         *)
ReadCounter(t) ==
  /\ pc[t] = "read"
  /\ \E w \in Word :
       /\ delta[t][w] > 0
       /\ word' = [word EXCEPT ![t] = w]
       /\ reg' = [reg EXCEPT ![t] = UM[w]]
  /\ pc' = [pc EXCEPT ![t] = "write"]
  /\ UNCHANGED <<UM, lock, delta>>

WriteCounter(t) ==
  /\ pc[t] = "write"
  /\ UM' = [UM EXCEPT ![word[t]] = reg[t] + delta[t][word[t]]]
  /\ delta' = [delta EXCEPT ![t][word[t]] = 0]
  /\ pc' = [pc EXCEPT ![t] = "read"]
  /\ UNCHANGED <<lock, word, reg>>

Leave(t) ==
  /\ pc[t] = "read" /\ delta[t] = Zero
  /\ lock' = NoThread
  /\ pc' = [pc EXCEPT ![t] = "idle"]
  /\ UNCHANGED <<UM, delta, word, reg>>

-----------------------------------------------------------------------------
VARIABLES
  program,
  pass,          \* the parallel region, 1 .. Passes, or Passes + 1 at the end
  created,       \* the units that may be worked on
  pending,       \* those of them nobody has taken
  rest,          \* rest[t]: the tokens of t's file not yet counted
  tw,            \* tw[t]: t's private copy of total_words, or local_words
  total_words,
  maps           \* UMfinal, and UMcritical and UMatomic, once complete

ompVars == <<program, pass, created, pending, rest, tw, total_words, maps>>
vars == <<criticalVars, ompVars>>

Program == {"for", "file", "line"}
Passes == IF program = "for" THEN 3 ELSE 1

(* The iterations of the loop, or the tasks, and the tokens of some.        *)
Unit == Units(program)
TokensOf(U) == Tokens(program, U)

Init ==
  /\ CriticalInit
  /\ program \in Program
  /\ pass = 1
  /\ created = IF program = "for" THEN Unit ELSE {}
  /\ pending = created
  /\ rest = [t \in Thread |-> {}]
  /\ tw = [t \in Thread |-> 0]
  /\ total_words = 0
  /\ maps = <<>>

(* The single construct: the task gets its own copy of f, or of line.       *)
CreateTask ==
  /\ pass <= Passes
  /\ \E u \in Unit :
       /\ First(u, Unit \ created)
       /\ created' = created \cup {u}
       /\ pending' = pending \cup {u}
  /\ UNCHANGED <<criticalVars, program, pass, rest, tw, total_words, maps>>

(* compute_file_critical, or a task: counted privately, merged at the end.  *)
(* Any thread of the team takes any unit.                                   *)
CountUnit(t) ==
  /\ pass = 1 /\ pc[t] = "idle"
  /\ \E u \in pending :
       /\ pending' = pending \ {u}
       /\ Merge(t, tokenize_line(TokensOf({u})))
       /\ tw' = [tw EXCEPT ![t] = @ + Cardinality(TokensOf({u}))]
  /\ UNCHANGED <<program, pass, created, rest, total_words, maps>>

(* compute_file2 and compute_file: the tokens are merged one by one.        *)
ReadFile(t) ==
  /\ pass \in 2 .. Passes
  /\ pc[t] = "idle" /\ rest[t] = {}
  /\ \E u \in pending :
       /\ pending' = pending \ {u}
       /\ rest' = [rest EXCEPT ![t] = TokensOf({u})]
  /\ UNCHANGED <<criticalVars, program, pass, created, tw, total_words, maps>>

CountToken(t) ==
  /\ pc[t] = "idle"
  /\ \E p \in rest[t] :
       /\ First(p, rest[t])
       /\ Merge(t, tokenize_line({p}))
       /\ rest' = [rest EXCEPT ![t] = @ \ {p}]
  /\ tw' = [tw EXCEPT ![t] = @ + 1]
  /\ UNCHANGED <<program, pass, created, pending, total_words, maps>>

(* A task adds its words to total_words inside the critical section.        *)
EnterCritical(t) ==
  /\ Enter(t)
  /\ IF program = "for"
     THEN UNCHANGED <<tw, total_words>>
     ELSE /\ total_words' = total_words + tw[t]
          /\ tw' = [tw EXCEPT ![t] = 0]
  /\ UNCHANGED <<program, pass, created, pending, rest, maps>>

InCritical(t) ==
  /\ ReadCounter(t) \/ WriteCounter(t) \/ Leave(t)
  /\ UNCHANGED ompVars

(* Mutant: the reduction forgets the value before the loop.                 *)
MutReduction(before, private) == private

(* The reduction(+:total_words) of a loop; tasks leave nothing to add.      *)
Reduction(before, private) == before + private

(* The barrier at the end of a parallel region.                             *)
EndRegion ==
  /\ pass <= Passes
  /\ created = Unit /\ pending = {}
  /\ \A t \in Thread : pc[t] = "idle" /\ rest[t] = {}
  /\ total_words' = Reduction(total_words, MapThenSumSet(LAMBDA t : tw[t], Thread))
  /\ tw' = [t \in Thread |-> 0]
  /\ maps' = Append(maps, UM)
  /\ UM' = Zero
  /\ pass' = pass + 1
  /\ pending' = IF pass' <= Passes THEN created ELSE {}
  /\ UNCHANGED <<lock, pc, delta, word, reg, program, created, rest>>

ThreadStep(t) ==
  CountUnit(t) \/ ReadFile(t) \/ CountToken(t) \/ EnterCritical(t) \/ InCritical(t)

Finished == pass > Passes /\ UNCHANGED vars

Next == CreateTask \/ (\E t \in Thread : ThreadStep(t)) \/ EndRegion \/ Finished

Spec == Init /\ [][Next]_vars

-----------------------------------------------------------------------------
TypeOK ==
  /\ UM \in [Word -> Nat] /\ lock \in Thread \cup {NoThread}
  /\ pc \in [Thread -> {"idle", "enter", "read", "write"}]
  /\ delta \in [Thread -> [Word -> Nat]] /\ reg \in [Thread -> Nat]
  /\ DOMAIN word = Thread /\ \A t \in Thread : pc[t] = "write" => word[t] \in Word
  /\ program \in Program /\ pass \in 1 .. 4
  /\ created \subseteq Unit /\ pending \subseteq created
  /\ rest \in [Thread -> SUBSET Position]
  /\ tw \in [Thread -> Nat] /\ total_words \in Nat
  /\ maps \in Seq([Word -> Nat])

(* What t has yet to add to the counter of w, and what nobody has read.     *)
Held(w) == [t \in Thread |-> delta[t][w] + tokenize_line(rest[t])[w]]
Unread == TokensOf(pending \cup (Unit \ created))

(* At every moment what is in the shared map, what the threads hold and     *)
(* what nobody has read yet add up to the text: no update is lost or made   *)
(* twice, whoever is inside the critical section.                           *)
NothingLost ==
  pass <= Passes => \A w \in Word :
    UM[w] + MapThenSumSet(LAMBDA t : Held(w)[t], Thread) + tokenize_line(Unread)[w]
      = SequentialUM[w]

(* Behind each barrier the map is the sequential one.  The total is it with *)
(* tasks; the three passes of the parallel for all add to the same          *)
(* total_words, so that what it prints is three times the number of words.  *)
RegionsExact ==
  /\ \A k \in DOMAIN maps : maps[k] = SequentialUM
  /\ pass > Passes => total_words = Passes * SequentialTotal
=============================================================================
