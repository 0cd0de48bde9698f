------------------------------- MODULE Reductions ------------------------------
(***************************************************************************)
(* The programs that deal a text or a range out to threads or workers and  *)
(* put together what each of them has found, side by side: the parallel    *)
(* word counts, with OpenMP and as a farm, and the primes.  One of them    *)
(* runs; the word counts work on the same text.                            *)
(***************************************************************************)
EXTENDS WordCountOmp

CONSTANTS
  nw,                           \* the farm of the word counts
  Ranges, MaxWorkers, chunk     \* the primes

ASSUME WorkersAssumption == nw \in Nat \ {0}

(* The programs reserve (n2 - n1) / log(n1) elements: not for n1 = 1.       *)
ASSUME RangesAssumption ==
  /\ \A r \in Ranges : r[1] \in Nat \ {1} /\ r[2] \in Nat /\ r[1] <= r[2]
  /\ MaxWorkers \in Nat \ {0} /\ chunk \in Nat \ {0}

VARIABLES
  family,        \* the programs one of which runs: "openmp", "farm" or "primes"
  grain, sent, closed, emitter, queue, back, local, worker, reduced,
  farmUM, farmTotal,
  run, senders, todo, chunks, found, joined, results, main

FF == INSTANCE WordCountFF WITH UM <- farmUM, total_words <- farmTotal
Primes == INSTANCE Primes WITH pool <- chunks

farmVars == <<grain, sent, closed, emitter, queue, back, local, worker, reduced,
              farmUM, farmTotal>>
primesVars == <<run, senders, todo, chunks, found, joined, results, main>>
allVars == <<family, vars, farmVars, primesVars>>

AllInit ==
  /\ family \in {"openmp", "farm", "primes"}
  /\ Init /\ FF!Init
  /\ family # "openmp" => program = "for"
  /\ family # "farm" => grain = "line"
  /\ IF family = "primes" THEN Primes!Init
     ELSE run = 0 /\ senders = 0 /\ todo = 0 /\ chunks = 0 /\ found = 0 /\
          joined = 0 /\ results = 0 /\ main = 0

OpenMPStep(A) == family = "openmp" /\ A /\ UNCHANGED <<family, farmVars, primesVars>>
FarmStep(A) == family = "farm" /\ A /\ UNCHANGED <<family, vars, primesVars>>
PrimesStep(A) == family = "primes" /\ A /\ UNCHANGED <<family, vars, farmVars>>

AllNext == OpenMPStep(Next) \/ FarmStep(FF!Next) \/ PrimesStep(Primes!Next)

(* FastFlow's nodes are threads; the programs that look for primes do not   *)
(* run in circles, so that it is enough that one of their threads goes on.  *)
AllSpec ==
  /\ AllInit /\ [][AllNext]_allVars
  /\ WF_allVars(FarmStep(FF!Emitter))
  /\ \A w \in FF!Worker : WF_allVars(FarmStep(FF!WorkerStep(w)))
  /\ WF_allVars(PrimesStep(Primes!Next))

(* Word-Count-ff-*.cpp, Emitter::svc: map and total hold exactly the tasks  *)
(* that have come back, in whatever order they did; and the emitter, which  *)
(* broadcasts EOS while every task is still out, ends only when all of them *)
(* are back, with the sequential result.                                    *)
FarmExact == FF!ReducedSoFar /\ FF!EndedExact

(* primes*.cpp: every prime of the range is found, once, and nothing else,  *)
(* and they are listed in order, however the parts of the range came back.  *)
PrimesFound == family = "primes" => Primes!PrimesFound /\ Primes!InOrder

(* Word-Count-ff-*.cpp: the farm ends, with the sequential result; and so   *)
(* do the programs that look for primes, with theirs.                       *)
ReductionsEnd ==
  /\ family = "farm" => FF!EndsExact
  /\ <>(family = "primes" => main = "end")

-----------------------------------------------------------------------------
(* Two files: a line of two words and a line of one; an empty line and a    *)
(* word that is in both files.                                              *)
TwoFiles == << << <<"a", "b">>, <<"a">> >>, << <<>>, <<"b">> >> >>

(* Blocks with primes at both ends, with a square, and an empty range.      *)
SmallRanges == {<<2, 11>>, <<23, 31>>, <<5, 5>>}
=============================================================================
