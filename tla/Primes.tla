--------------------------------- MODULE Primes --------------------------------
(***************************************************************************)
(* The programs that print the primes of a range: sequential, with OpenMP, *)
(* with FastFlow's parallel for, as a master-worker farm and as an         *)
(* all-to-all.  Each splits the range, its workers look for the primes of  *)
(* their parts in any order, and the results are put together.             *)
(***************************************************************************)
EXTENDS Naturals, FiniteSets, SequencesExt

CONSTANTS
  Ranges,       \* the pairs <<number1, number2>> of the command line
  MaxWorkers,   \* programs run with 1 .. MaxWorkers workers
  chunk         \* size of the chunks of the programs that can have them

VARIABLES
  run,       \* the program and its arguments; nw: workers, or L-Workers
  senders,   \* the L-Workers (the Emitter) that have not sent yet
  todo,      \* todo[w]: the parts waiting for worker w, from and behind
  pool,      \* the chunks of a dynamic loop, in order
  found,     \* found[w]: the primes found by w, R[w]
  joined,    \* the workers whose primes are in results
  results,
  main       \* "running", "joining" or "end"

vars == <<run, senders, todo, pool, found, joined, results, main>>

-----------------------------------------------------------------------------
(* The loop of is_prime tries i and i + 2 for i = 5, 11, 17 ...             *)
is_prime(n) ==
  IF n <= 3 THEN n > 1
  ELSE /\ n % 2 # 0 /\ n % 3 # 0
       /\ \A i \in {j \in 5 .. n : j % 6 = 5 /\ j * j <= n} : n % i # 0 /\ n % (i + 2) # 0

(* The numbers of a set in order.                                           *)
Ascending(S) ==
  [k \in 1 .. Cardinality(S) |-> CHOOSE x \in S : Cardinality({y \in S : y < x}) = k - 1]

(* while ((prime = n1++) < n2): what a worker finds in a part.              *)
PrimesIn(part) == Ascending({n \in part[1] .. part[2] - 1 : is_prime(n)})

(* Mutant: the remainder of the division is lost.                           *)
MutPart(n1, n2, parts, i) ==
  LET size == (n2 - n1) \div parts IN <<n1 + i * size, n1 + (i + 1) * size>>

(* Part i of a range in parts parts: the first ones have one number more.   *)
Part(n1, n2, parts, i) ==
  LET size == (n2 - n1) \div parts
      more == (n2 - n1) % parts
      start(k) == n1 + k * size + (IF k < more THEN k ELSE more)
  IN  <<start(i), start(i + 1)>>

(* The part the Emitter keeps has no extra number, the others share them.   *)
EmitterPart(n1, n2, nw) == <<n1, n1 + (n2 - n1) \div (nw + 1)>>
WorkerPart(n1, n2, nw, i) == Part(EmitterPart(n1, n2, nw)[2], n2, nw, i)

(* Chunk k of a loop in chunks.                                             *)
Chunks(n1, n2) == (n2 - n1 + chunk - 1) \div chunk
Chunk(n1, n2, k) ==
  LET from == n1 + k * chunk
  IN  <<from, IF from + chunk < n2 THEN from + chunk ELSE n2>>

(* A static schedule: a part for each worker, or chunks dealt in turn.      *)
StaticParts(n1, n2, nw) == [w \in 0 .. nw - 1 |-> {Part(n1, n2, nw, w)}]
StaticChunks(n1, n2, nw) ==
  [w \in 0 .. nw - 1 |->
     {Chunk(n1, n2, k) : k \in {c \in 0 .. Chunks(n1, n2) - 1 : c % nw = w}}]
DynamicChunks(n1, n2) == [k \in 1 .. Chunks(n1, n2) |-> Chunk(n1, n2, k - 1)]

-----------------------------------------------------------------------------
(* How a program starts: the parts that are handed out from the beginning,  *)
(* the pool, the nodes that hand out more, and the end of its range (some   *)
(* loops take n2 in, some do not).                                          *)
Start(w, p, s, b) == [todo |-> w, pool |-> p, senders |-> s, behind |-> b]
Nothing(nw) == [w \in 0 .. nw - 1 |-> {}]

primes(n1, n2, nw) == Start([w \in {0} |-> {<<n1, n2 + 1>>}], <<>>, {}, n2 + 1)
PDS_primes(n1, n2, nw) == Start([w \in {0} |-> {<<n1, n2>>}], <<>>, {}, n2)

primes_omp(n1, n2, nw) == Start(StaticParts(n1, n2, nw), <<>>, {}, n2)
primes_omp_chunk(n1, n2, nw) == Start(StaticChunks(n1, n2, nw), <<>>, {}, n2)
primes_omp_dynamic(n1, n2, nw) == Start(Nothing(nw), DynamicChunks(n1, n2), {}, n2)

(* chunk = 0, chunk < 0 and chunk > 0.                                      *)
primes_parallelfor(n1, n2, nw) == Start(StaticParts(n1, n2 + 1, nw), <<>>, {}, n2 + 1)
primes_parallelfor_chunk(n1, n2, nw) ==
  Start(StaticChunks(n1, n2 + 1, nw), <<>>, {}, n2 + 1)
primes_parallelfor_dynamic(n1, n2, nw) ==
  Start(Nothing(nw), DynamicChunks(n1, n2 + 1), {}, n2 + 1)

(* With nw = 1 the sequential loop; otherwise an Emitter, nw - 1 workers.   *)
primes_master_worker(n1, n2, nw) ==
  IF nw = 1 THEN primes(n1, n2, nw)
  ELSE Start(Nothing(nw - 1), <<>>, {0}, n2)

(* nw L-Workers, Rw R-Workers.                                              *)
primes_a2a(n1, n2, nw, Rw) == Start(Nothing(Rw), <<>>, 0 .. nw - 1, n2)

StartOf(p, n1, n2, nw, Rw) ==
  CASE p = "primes" -> primes(n1, n2, nw)
    [] p = "PDS_primes" -> PDS_primes(n1, n2, nw)
    [] p = "primes_omp" -> primes_omp(n1, n2, nw)
    [] p = "primes_omp_chunk" -> primes_omp_chunk(n1, n2, nw)
    [] p = "primes_omp_dynamic" -> primes_omp_dynamic(n1, n2, nw)
    [] p = "primes_parallelfor" -> primes_parallelfor(n1, n2, nw)
    [] p = "primes_parallelfor_chunk" -> primes_parallelfor_chunk(n1, n2, nw)
    [] p = "primes_parallelfor_dynamic" -> primes_parallelfor_dynamic(n1, n2, nw)
    [] p = "primes_master_worker" -> primes_master_worker(n1, n2, nw)
    [] p = "primes_a2a" -> primes_a2a(n1, n2, nw, Rw)

Programs ==
  {"primes", "PDS_primes", "primes_omp", "primes_omp_chunk", "primes_omp_dynamic",
   "primes_parallelfor", "primes_parallelfor_chunk", "primes_parallelfor_dynamic",
   "primes_master_worker", "primes_a2a"}

InitWith(p, r, nw, Rw) ==
  LET s == StartOf(p, r[1], r[2], nw, Rw) IN
  /\ run = [program |-> p, n1 |-> r[1], n2 |-> r[2], nw |-> nw, behind |-> s.behind]
  /\ todo = s.todo /\ pool = s.pool /\ senders = s.senders
  /\ found = [w \in DOMAIN s.todo |-> <<>>]
  /\ joined = {} /\ results = <<>>
  /\ main = "running"

Init ==
  \E p \in Programs, r \in Ranges, nw, Rw \in 1 .. MaxWorkers :
    (p # "primes_a2a" => Rw = nw) /\ InitWith(p, r, nw, Rw)

Worker == DOMAIN todo
Farm == run.program = "primes_master_worker" /\ run.nw > 1

-----------------------------------------------------------------------------
(* std::upper_bound in s, sorted; in a sequence that is not sorted it may   *)
(* return any place.                                                        *)
Sorted(s) == \A j, k \in DOMAIN s : j < k => s[j] < s[k]
upper_bound(s, x) ==
  IF Sorted(s) THEN {Cardinality({k \in DOMAIN s : s[k] <= x})} ELSE 0 .. Len(s)

(* results.insert: where the first of the new primes belongs.               *)
Insert(s, v) ==
  IF v = <<>> THEN {s}
  ELSE {SubSeq(s, 1, k) \o v \o SubSeq(s, k + 1, Len(s)) : k \in upper_bound(s, v[1])}

(* L_Worker::svc: one part of its part to each R-Worker.                    *)
L_Worker(l) ==
  /\ run.program = "primes_a2a" /\ l \in senders
  /\ LET mine == Part(run.n1, run.n2, run.nw, l)
         Rw == Cardinality(Worker)
     IN  todo' = [w \in Worker |-> todo[w] \cup {Part(mine[1], mine[2], Rw, w)}]
  /\ senders' = senders \ {l}
  /\ UNCHANGED <<run, pool, found, joined, results, main>>

(* Emitter::svc, the first call: a part to each worker and EOS ...          *)
EmitterSends ==
  /\ Farm /\ senders # {}
  /\ todo' = [w \in Worker |-> {WorkerPart(run.n1, run.n2, Cardinality(Worker), w)}]
  /\ senders' = {}
  /\ UNCHANGED <<run, pool, found, joined, results, main>>

(* ... and the part it has kept.                                            *)
EmitterComputes ==
  /\ Farm /\ senders = {} /\ main = "running"
  /\ results' = PrimesIn(EmitterPart(run.n1, run.n2, Cardinality(Worker)))
  /\ main' = "joining"
  /\ UNCHANGED <<run, senders, todo, pool, found, joined>>

(* A worker's next part; from the channels of an all-to-all, any.           *)
MayTake(w, part) ==
  run.program = "primes_a2a" \/ \A other \in todo[w] : part[1] <= other[1]

(* A worker looks for the primes of a part: R_Worker::svc, Worker::svc, the *)
(* bodies of the loops.                                                     *)
Search(w) ==
  /\ \E part \in todo[w] :
       /\ MayTake(w, part)
       /\ todo' = [todo EXCEPT ![w] = @ \ {part}]
       /\ found' = [found EXCEPT ![w] = @ \o PrimesIn(part)]
  /\ UNCHANGED <<run, senders, pool, joined, results, main>>

(* Dynamic schedule: the next chunk goes to whoever asks.                   *)
TakeChunk(w) ==
  /\ todo[w] = {} /\ pool # <<>>
  /\ todo' = [todo EXCEPT ![w] = {Head(pool)}]
  /\ pool' = Tail(pool)
  /\ UNCHANGED <<run, senders, found, joined, results, main>>

WorkDone(w) == senders = {} /\ pool = <<>> /\ todo[w] = {}

(* The farm's workers send what they found when they end; the other         *)
(* programs put everything together after the loop or the network.          *)
JoinStarts ==
  /\ ~Farm /\ main = "running"
  /\ \A w \in Worker : WorkDone(w)
  /\ main' = "joining"
  /\ UNCHANGED <<run, senders, todo, pool, found, joined, results>>

(* primes_parallelfor without chunks appends, the others look for the place *)
Joins(w) ==
  IF run.program = "primes_parallelfor" THEN {results \o found[w]}
  ELSE Insert(results, found[w])

Join(w) ==
  /\ main = "joining"
  /\ w \notin joined /\ WorkDone(w)
  /\ Farm \/ \A v \in Worker : v < w => v \in joined
  /\ results' \in Joins(w)
  /\ joined' = joined \cup {w}
  /\ UNCHANGED <<run, senders, todo, pool, found, main>>

(* if (Lw > 1), if (kind != omp_sched_static), if (chunk != 0)              *)
MustSort ==
  \/ run.program = "primes_a2a" /\ run.nw > 1
  \/ run.program \in {"primes_omp_dynamic", "primes_parallelfor_chunk",
                      "primes_parallelfor_dynamic"}

(* At k: fewer than k numbers are smaller, k at least are not greater.      *)
sort(s) ==
  [k \in DOMAIN s |-> CHOOSE v \in ToSet(s) :
                        /\ Cardinality({j \in DOMAIN s : s[j] < v}) < k
                        /\ k <= Cardinality({j \in DOMAIN s : s[j] <= v})]

Finish ==
  /\ main = "joining" /\ joined = Worker
  /\ results' = IF MustSort THEN sort(results) ELSE results
  /\ main' = "end"
  /\ UNCHANGED <<run, senders, todo, pool, found, joined>>

Main == JoinStarts \/ EmitterSends \/ EmitterComputes
        \/ (\E w \in Worker : Join(w)) \/ Finish
WorkerStep(w) == Search(w) \/ TakeChunk(w)
Ended == main = "end" /\ UNCHANGED vars

Next == Main \/ (\E l \in senders : L_Worker(l)) \/ (\E w \in Worker : WorkerStep(w)) \/ Ended

-----------------------------------------------------------------------------
Prime(n) == n > 1 /\ \A d \in 2 .. n - 1 : n % d # 0

(* Every prime of the program's range is found, once, and nothing else; and *)
(* they are printed in order.  primes_omp with OMP_SCHEDULE=static,chunk is *)
(* the exception: it sorts by the kind of the schedule alone.               *)
PrimesFound ==
  main = "end" =>
    /\ ToSet(results) = {n \in run.n1 .. run.behind - 1 : Prime(n)}
    /\ Cardinality(ToSet(results)) = Len(results)
InOrder ==
  main = "end" /\ run.program # "primes_omp_chunk" => Sorted(results)
=============================================================================
