------------------------- MODULE ItemNetworksProofs --------------------------
(***************************************************************************)
(* The invariants of the networks of ItemNetworks, for every length of the *)
(* stream and every number of workers: the farm of Wf_ff.cpp, the nested   *)
(* loops of termination_with_loop.cpp, the farm with an on-demand emitter  *)
(* and the networks of dot products.  Each says of every item in which one *)
(* place it is, and of every channel where EOS can be; here is that every  *)
(* step of the network keeps it.  At the end are the pipelines and the     *)
(* ordered farm again, whose items also stay in order.                     *)
(***************************************************************************)
EXTENDS ItemNetworks, FiniteLemmas

-----------------------------------------------------------------------------
(* Wf_ff.cpp: the emitter, its workers and the matrix.                      *)

(* The task of worker w of the current diagonal.                            *)
TaskOf(w) == [diagonal |-> diag, from_elem |-> Wave!From(w, N - diag),
              to_elem |-> Wave!To(w, N - diag)]

(* Where a task is: in the worker's queue, at work, on its way back; or the *)
(* worker has none.                                                         *)
Waits(w) ==
  waveInput[w] = <<TaskOf(w)>> /\ feedback[w] = <<>> /\ waveWorker[w] = "idle"
Works(w) ==
  /\ waveInput[w] = <<TaskOf(w)>> /\ feedback[w] = <<>> /\ waveWorker[w] = "busy"
  /\ elem[w] \in Wave!From(w, N - diag) .. Wave!To(w, N - diag)
Returns(w) ==
  waveInput[w] = <<>> /\ feedback[w] = <<TaskOf(w)>> /\ waveWorker[w] = "idle"
Free(w) ==
  waveInput[w] = <<>> /\ feedback[w] = <<>> /\ waveWorker[w] = "idle"

(* Element e of the diagonal is still to be computed by w.                  *)
Left(w, e) ==
  \/ Waits(w) /\ e \in Wave!From(w, N - diag) .. Wave!To(w, N - diag) - 1
  \/ Works(w) /\ e \in elem[w] .. Wave!To(w, N - diag) - 1

AllOk == M = [c \in Wave!Cell |-> "ok"]

BeforeFirst ==
  /\ waveEmitter = "start" /\ diag = 0 /\ send = 0 /\ done = 0
  /\ \A w \in Wave!Worker : Free(w)
  /\ M = Wave!InitialM

InDiagonal ==
  /\ waveEmitter = "running" /\ diag \in 1 .. N - 1
  /\ \A w \in Wave!Worker : \/ Free(w)
                            \/ /\ w \in Wave!Scheduled(N - diag)
                               /\ Waits(w) \/ Works(w) \/ Returns(w)
  /\ send = Cardinality(Wave!Scheduled(N - diag))
  /\ done = Cardinality({w \in Wave!Scheduled(N - diag) : Free(w)})
  /\ M = [c \in Wave!Cell |->
            IF c[1] < diag \/ (c[1] = diag /\ \A w \in Wave!Worker : ~Left(w, c[2]))
            THEN "ok" ELSE "zero"]

(* EOS, to the worker and back.                                             *)
Closing ==
  /\ waveEmitter = "running" /\ diag = N /\ send = 0 /\ done = 0 /\ AllOk
  /\ \A w \in Wave!Worker :
       \/ waveInput[w] = <<Wave!EOS>> /\ feedback[w] = <<>> /\ waveWorker[w] = "idle"
       \/ waveInput[w] = <<>> /\ feedback[w] = <<Wave!EOS>> /\ waveWorker[w] = "ended"

Closed ==
  /\ waveEmitter = "ended" /\ send = 0 /\ done = 0 /\ AllOk
  /\ \A w \in Wave!Worker :
       waveInput[w] = <<>> /\ feedback[w] = <<>> /\ waveWorker[w] = "ended"

(* The state of the queues and workers has the workers as its domain.       *)
Channels ==
  /\ DOMAIN waveInput = Wave!Worker /\ DOMAIN feedback = Wave!Worker
  /\ DOMAIN elem = Wave!Worker /\ DOMAIN waveWorker = Wave!Worker

WaveInv ==
  network = "wavefront" => Channels /\ (BeforeFirst \/ InDiagonal \/ Closing \/ Closed)

(* Element number e of diagonal d.                                          *)
LEMMA Cells ==
  /\ \A c \in Wave!Cell : /\ c[1] \in 0 .. N - 1 /\ c[2] \in 0 .. N - 1 - c[1]
                          /\ c = <<c[1], c[2]>>
  /\ \A d \in 0 .. N - 1 : \A e \in 0 .. N - 1 - d : <<d, e>> \in Wave!Cell
BY WavefrontAssumption DEF Wave!Cell, Wave!Diag

(* What an element is computed from is in earlier diagonals.                *)
LEMMA ReadsBehind ==
  ASSUME NEW d \in 0 .. N - 1, NEW e \in 0 .. N - 1 - d
  PROVE  \A x \in Wave!Reads(<<d, e>>) : x \in Wave!Cell /\ x[1] < d
<1>1. SUFFICES ASSUME NEW x \in Wave!Reads(<<d, e>>)
               PROVE  x \in Wave!Cell /\ x[1] < d
  OBVIOUS
<1>2. PICK k \in 0 .. d - 1 : x \in {<<d - k - 1, e>>, <<d - k - 1, e + k + 1>>}
  BY <1>1 DEF Wave!Reads, Wave!Factors
<1>3. /\ d - k - 1 \in 0 .. N - 1 /\ d - k - 1 < d
      /\ e \in 0 .. N - 1 - (d - k - 1) /\ e + k + 1 \in 0 .. N - 1 - (d - k - 1)
  BY WavefrontAssumption
<1>4. <<d - k - 1, e>> \in Wave!Cell /\ <<d - k - 1, e + k + 1>> \in Wave!Cell
  BY <1>3, Cells
<1>. QED
  BY <1>2, <1>3, <1>4

(* The tasks of a diagonal of d elements: one behind the other, together    *)
(* the diagonal.                                                            *)
LEMMA Shares ==
  ASSUME NEW d \in Nat
  PROVE  /\ \A w \in Wave!Worker :
              /\ Wave!From(w, d) \in Nat /\ Wave!To(w, d) \in Nat
              /\ Wave!From(w, d) <= Wave!To(w, d) /\ Wave!To(w, d) <= d
         /\ \A v, w \in Wave!Worker : v < w => Wave!To(v, d) <= Wave!From(w, d)
         /\ \A e \in 0 .. d - 1 : \E w \in Wave!Worker :
              e \in Wave!From(w, d) .. Wave!To(w, d) - 1
<1>. DEFINE q == d \div Nw
            m == d % Nw
            F(i) == i * q + (IF i < m THEN i ELSE m)
<1>1. q \in Nat /\ m \in 0 .. Nw - 1 /\ d = Nw * q + m
  BY Division, WavefrontAssumption
<1>2. \A w \in Wave!Worker : Wave!From(w, d) = F(w)
  BY DEF Wave!From, Wave!Min2
<1>3. \A w \in Wave!Worker :
        Wave!To(w, d) = F(w) + q + (IF w < m THEN 1 ELSE 0)
  BY <1>2 DEF Wave!To
<1>. HIDE DEF q, m
<1>4. \A i, j \in Nat : i <= j => i * q \in Nat /\ j * q \in Nat /\ i * q <= j * q
  <2>. SUFFICES ASSUME NEW i \in Nat, NEW j \in Nat, i <= j
                PROVE  i * q \in Nat /\ j * q \in Nat /\ i * q <= j * q
    OBVIOUS
  <2>1. j - i \in Nat /\ j = i + (j - i)
    OBVIOUS
  <2>2. PICK k \in Nat : j = i + k
    BY <2>1
  <2>3. j * q = i * q + k * q /\ k * q \in Nat /\ i * q \in Nat
    BY <1>1, <2>2
  <2>. QED
    BY <2>3
<1>5. \A i \in Nat : /\ F(i) \in Nat /\ F(i + 1) \in Nat
                     /\ F(i + 1) = F(i) + q + (IF i < m THEN 1 ELSE 0)
  <2>. SUFFICES ASSUME NEW i \in Nat
                PROVE  /\ F(i) \in Nat /\ F(i + 1) \in Nat
                       /\ F(i + 1) = F(i) + q + (IF i < m THEN 1 ELSE 0)
    OBVIOUS
  <2>1. (i + 1) * q = i * q + q /\ i * q \in Nat
    BY <1>1
  <2>. QED
    BY <1>1, <2>1
<1>6. \A i, j \in Nat : i <= j => F(i) <= F(j)
  BY <1>1, <1>4
<1>7. F(Nw) = d /\ F(0) = 0
  <2>1. Nw * q \in Nat /\ 0 * q = 0
    BY <1>1, WavefrontAssumption
  <2>. QED
    BY <1>1, <2>1, WavefrontAssumption
<1>8. Wave!Worker = 0 .. Nw - 1 /\ Nw \in Nat \ {0}
  BY WavefrontAssumption DEF Wave!Worker
<1>9. \A w \in Wave!Worker : w \in Nat /\ w + 1 \in Nat /\ w + 1 <= Nw /\ w <= w + 1
  BY <1>8
<1>10. \A w \in Wave!Worker : Wave!From(w, d) = F(w) /\ Wave!To(w, d) = F(w + 1)
  BY <1>2, <1>3, <1>5, <1>9
<1>. HIDE DEF F
<1>11. \A w \in Wave!Worker :
         /\ Wave!From(w, d) \in Nat /\ Wave!To(w, d) \in Nat
         /\ Wave!From(w, d) <= Wave!To(w, d) /\ Wave!To(w, d) <= d
  <2>. SUFFICES ASSUME NEW w \in Wave!Worker
                PROVE  /\ F(w) \in Nat /\ F(w + 1) \in Nat
                       /\ F(w) <= F(w + 1) /\ F(w + 1) <= F(Nw)
    BY <1>7, <1>10
  <2>. QED
    BY <1>5, <1>6, <1>8, <1>9
<1>12. \A v, w \in Wave!Worker : v < w => Wave!To(v, d) <= Wave!From(w, d)
  <2>. SUFFICES ASSUME NEW v \in Wave!Worker, NEW w \in Wave!Worker, v < w
                PROVE  F(v + 1) <= F(w)
    BY <1>10
  <2>1. v + 1 <= w /\ v + 1 \in Nat /\ w \in Nat
    BY <1>8
  <2>. QED
    BY <1>6, <2>1
<1>13. ASSUME NEW e \in 0 .. d - 1
       PROVE  \E w \in Wave!Worker : e \in Wave!From(w, d) .. Wave!To(w, d) - 1
  <2>. DEFINE T == {i \in 0 .. Nw : F(i) <= e}
  <2>1. 0 \in T /\ T \in SUBSET (0 .. Nw)
    BY <1>7, <1>8
  <2>2. PICK w \in T : \A x \in T : x <= w
    <3>. HIDE DEF T
    <3>. QED BY <1>8, <2>1, Greatest
  <2>3. w # Nw
    BY <1>7
  <2>4. w \in Wave!Worker /\ w \in Nat /\ w + 1 \in 0 .. Nw /\ w + 1 > w
    BY <1>8, <2>3
  <2>5. w + 1 \notin T
    BY <2>2, <2>4
  <2>6. F(w) <= e /\ e < F(w + 1) /\ F(w) \in Nat /\ F(w + 1) \in Nat
    BY <1>5, <2>4, <2>5
  <2>. QED
    BY <1>10, <2>4, <2>6
<1>. QED
  BY <1>11, <1>12, <1>13

(* The cardinality of the instantiated module is the one of FiniteSets.     *)
LEMMA WaveCardinality == \A S : Wave!Cardinality(S) = Cardinality(S)
BY DEF Wave!Cardinality, Cardinality

(* The tasks of a diagonal are for some of the workers, finitely many.      *)
LEMMA FewTasks ==
  ASSUME NEW d
  PROVE  Wave!Scheduled(d) \in SUBSET Wave!Worker /\ IsFiniteSet(Wave!Scheduled(d))
<1>1. IsFiniteSet(Wave!Worker)
  BY FS_Interval, WavefrontAssumption DEF Wave!Worker
<1>. QED
  BY <1>1, FS_Subset DEF Wave!Scheduled

(* A task is not the end of the stream.                                     *)
LEMMA TasksAreNotEOS ==
  ASSUME NEW a, NEW b, NEW c
  PROVE  [diagonal |-> a, from_elem |-> b, to_elem |-> c] # Wave!EOS
<1>1. DOMAIN [diagonal |-> a, from_elem |-> b, to_elem |-> c] # DOMAIN [eos |-> TRUE]
  OBVIOUS
<1>. QED
  BY <1>1 DEF Wave!EOS

(* A message sent to an empty channel is alone in it.                       *)
LEMMA AppendToEmpty ==
  ASSUME NEW m
  PROVE  Append(<<>>, m) = <<m>>
OBVIOUS

(* The emitter has every task of a diagonal back and splits the next one,   *)
(* or sends EOS.                                                            *)
LEMMA NextDiagonal ==
  ASSUME diag \in 0 .. N - 1,
         DOMAIN waveInput = Wave!Worker,
         \A w \in Wave!Worker :
           waveInput[w] = <<>> /\ feedback'[w] = <<>> /\ waveWorker'[w] = "idle",
         waveEmitter' = "running",
         M' = [c \in Wave!Cell |-> IF c[1] <= diag THEN "ok" ELSE "zero"],
         NEW d, send = d, Wave!Schedule(d)
  PROVE  /\ InDiagonal' \/ Closing'
         /\ DOMAIN waveInput' = Wave!Worker
<1>1. /\ diag' = diag + 1 /\ done' = 0 /\ diag' \in 1 .. N
  BY WavefrontAssumption DEF Wave!Schedule, Wave!DiagonalDone
<1>2. CASE diag' < N
  <2>. DEFINE size == N - diag'
  <2>1. /\ send' = Cardinality(Wave!Scheduled(size))
        /\ waveInput' = [w \in Wave!Worker |->
                           IF w \in Wave!Scheduled(size)
                           THEN Append(waveInput[w], [diagonal |-> diag',
                                                      from_elem |-> Wave!From(w, size),
                                                      to_elem |-> Wave!To(w, size)])
                           ELSE waveInput[w]]
    BY <1>1, <1>2, WaveCardinality DEF Wave!Schedule, Wave!DiagonalDone
  <2>2. \A w \in Wave!Worker :
          /\ w \in Wave!Scheduled(size) => Waits(w)' /\ ~Free(w)'
          /\ w \notin Wave!Scheduled(size) => Free(w)'
    <3>. SUFFICES ASSUME NEW w \in Wave!Worker
                  PROVE  /\ w \in Wave!Scheduled(size) => Waits(w)' /\ ~Free(w)'
                         /\ w \notin Wave!Scheduled(size) => Free(w)'
      OBVIOUS
    <3>1. w \in Wave!Scheduled(size) => waveInput'[w] = <<TaskOf(w)'>>
      BY <2>1, AppendToEmpty DEF TaskOf
    <3>2. w \notin Wave!Scheduled(size) => waveInput'[w] = <<>>
      BY <2>1
    <3>. QED
      BY <3>1, <3>2 DEF Waits, Free
  <2>3. size \in Nat /\ diag' \in 1 .. N - 1
    BY <1>1, <1>2, WavefrontAssumption
  <2>4. {w \in Wave!Scheduled(size) : Free(w)'} = {}
    BY <2>2, FewTasks
  <2>5. done' = Cardinality({w \in Wave!Scheduled(size) : Free(w)'})
    BY <1>1, <2>4, FS_EmptySet
  <2>6. ASSUME NEW c \in Wave!Cell, c[1] = diag'
        PROVE  \E w \in Wave!Worker : Left(w, c[2])'
    <3>1. c[2] \in 0 .. size - 1
      <4>1. c[1] \in 0 .. N - 1 /\ c[2] \in 0 .. N - 1 - c[1]
        BY Cells
      <4>2. N - 1 - c[1] = size - 1
        BY <2>3, <2>6, <4>1, WavefrontAssumption
      <4>. QED
        BY <4>1, <4>2
    <3>2. PICK w \in Wave!Worker :
            c[2] \in Wave!From(w, size) .. Wave!To(w, size) - 1
      BY <2>3, <3>1, Shares
    <3>3. w \in Wave!Scheduled(size)
      <4>1. Wave!From(w, size) \in Nat /\ Wave!To(w, size) \in Nat
        BY <2>3, Shares
      <4>. QED
        BY <3>2, <4>1 DEF Wave!Scheduled
    <3>. QED
      BY <2>2, <3>2, <3>3 DEF Left
  <2>7. M' = [c \in Wave!Cell |->
                IF c[1] < diag' \/ (c[1] = diag' /\ \A w \in Wave!Worker : ~Left(w, c[2])')
                THEN "ok" ELSE "zero"]
    <3>1. \A c \in Wave!Cell : c[1] <= diag <=> c[1] < diag'
      BY <1>1, Cells, WavefrontAssumption
    <3>. QED
      BY <2>6, <3>1
  <2>8. \A w \in Wave!Worker :
          Free(w)' \/ (w \in Wave!Scheduled(size) /\ (Waits(w)' \/ Works(w)' \/ Returns(w)'))
    BY <2>2
  <2>. QED
    BY <2>1, <2>3, <2>5, <2>7, <2>8 DEF InDiagonal
<1>3. CASE ~(diag' < N)
  <2>1. diag' = N
    BY <1>1, <1>3, WavefrontAssumption
  <2>2. send' = 0 /\ waveInput' = [w \in Wave!Worker |-> Append(waveInput[w], Wave!EOS)]
    BY <1>1, <1>3 DEF Wave!Schedule, Wave!DiagonalDone
  <2>3. \A c \in Wave!Cell : c[1] <= diag
    BY <1>1, <2>1, Cells, WavefrontAssumption
  <2>4. AllOk'
    BY <2>3 DEF AllOk
  <2>5. \A w \in Wave!Worker :
          waveInput'[w] = <<Wave!EOS>> /\ feedback'[w] = <<>> /\ waveWorker'[w] = "idle"
    BY <2>2, AppendToEmpty
  <2>. QED
    BY <1>1, <2>1, <2>2, <2>4, <2>5 DEF Closing
<1>. QED
  BY <1>2, <1>3

(* The first call, without a task.                                          *)
LEMMA FirstCallStep ==
  ASSUME Channels, BeforeFirst \/ InDiagonal \/ Closing \/ Closed, Wave!FirstCall
  PROVE  Channels' /\ (InDiagonal' \/ Closing') /\ M' = M
<1>1. BeforeFirst /\ Wave!Schedule(0) /\ UNCHANGED <<M, feedback, elem, waveWorker>>
      /\ waveEmitter' = "running"
  BY DEF BeforeFirst, InDiagonal, Closing, Closed, Wave!FirstCall
<1>2. diag \in 0 .. N - 1 /\ diag = 0 /\ send = 0
  BY <1>1, WavefrontAssumption DEF BeforeFirst
<1>3. \A w \in Wave!Worker :
        waveInput[w] = <<>> /\ feedback'[w] = <<>> /\ waveWorker'[w] = "idle"
  BY <1>1 DEF BeforeFirst, Free
<1>4. \A c \in Wave!Cell : c[1] = 0 <=> c[1] <= diag
  BY <1>2, Cells, WavefrontAssumption
<1>5. M' = [c \in Wave!Cell |-> IF c[1] <= diag THEN "ok" ELSE "zero"]
  BY <1>1, <1>4 DEF BeforeFirst, Wave!InitialM
<1>6. /\ InDiagonal' \/ Closing'
      /\ DOMAIN waveInput' = Wave!Worker
  BY <1>1, <1>2, <1>3, <1>5, NextDiagonal DEF Channels
<1>. QED
  BY <1>1, <1>6 DEF Channels

(* A task that comes back.                                                  *)
LEMMA TaskDoneStep ==
  ASSUME Channels, BeforeFirst \/ InDiagonal \/ Closing \/ Closed,
         NEW w \in Wave!Worker, Wave!TaskDone(w)
  PROVE  Channels' /\ (InDiagonal' \/ Closing') /\ M' = M
<1>1. InDiagonal
  BY DEF BeforeFirst, Closing, Closed, Free, Wave!TaskDone
<1>2. /\ Returns(w) /\ w \in Wave!Scheduled(N - diag)
      /\ feedback' = [feedback EXCEPT ![w] = <<>>]
      /\ UNCHANGED <<M, waveEmitter, elem, waveWorker>>
      /\ Wave!Schedule(done + 1)
  <2>1. Returns(w) /\ w \in Wave!Scheduled(N - diag)
    BY <1>1 DEF InDiagonal, Wave!TaskDone, Free, Waits, Works
  <2>2. Tail(feedback[w]) = <<>>
    BY <2>1 DEF Returns
  <2>. QED
    BY <2>1, <2>2 DEF Wave!TaskDone
<1>3. DOMAIN feedback' = Wave!Worker /\ feedback'[w] = <<>>
      /\ \A v \in Wave!Worker : v # w => feedback'[v] = feedback[v]
  BY <1>2 DEF Channels
<1>. DEFINE S == Wave!Scheduled(N - diag)
            F == {v \in S : Free(v)}
<1>4. /\ IsFiniteSet(S) /\ S \in SUBSET Wave!Worker /\ F \in SUBSET S /\ IsFiniteSet(F)
      /\ w \in S /\ w \notin F
  BY <1>2, FewTasks, FS_Subset DEF Free, Returns
<1>5. Cardinality(F \cup {w}) = done + 1 /\ done \in Nat
  BY <1>1, <1>4, FS_AddElement, FS_CardinalityType DEF InDiagonal
<1>6. CASE send = done + 1
  <2>1. F \cup {w} = S
    <3>. HIDE DEF F, S
    <3>1. F \cup {w} \in SUBSET S /\ Cardinality(F \cup {w}) = Cardinality(S)
      BY <1>1, <1>4, <1>5, <1>6 DEF InDiagonal, S
    <3>. QED
      BY <1>4, <3>1, FS_Subset
  <2>2. \A v \in Wave!Worker : v # w => Free(v)
    BY <1>1, <2>1 DEF InDiagonal
  <2>3. \A v \in Wave!Worker :
          waveInput[v] = <<>> /\ feedback'[v] = <<>> /\ waveWorker'[v] = "idle"
    BY <1>2, <1>3, <2>2 DEF Free, Returns
  <2>4. \A v \in Wave!Worker : \A e : ~Left(v, e)
    BY <1>2, <2>2, <2>3 DEF Left, Free, Returns, Waits, Works
  <2>5. \A c \in Wave!Cell : c[1] <= diag <=> c[1] < diag \/ c[1] = diag
    BY <1>1, Cells, WavefrontAssumption DEF InDiagonal
  <2>6. M' = [c \in Wave!Cell |-> IF c[1] <= diag THEN "ok" ELSE "zero"]
    BY <1>1, <1>2, <2>4, <2>5 DEF InDiagonal
  <2>7. diag \in 0 .. N - 1 /\ waveEmitter' = "running"
    BY <1>1, <1>2, WavefrontAssumption DEF InDiagonal
  <2>8. /\ InDiagonal' \/ Closing'
        /\ DOMAIN waveInput' = Wave!Worker
    BY <1>2, <1>6, <2>3, <2>6, <2>7, NextDiagonal DEF Channels
  <2>. QED
    BY <1>2, <1>3, <2>8 DEF Channels
<1>7. CASE send # done + 1
  <2>1. done' = done + 1 /\ UNCHANGED <<send, diag, waveInput>>
    BY <1>2, <1>7 DEF Wave!Schedule, Wave!DiagonalDone
  <2>2. /\ Free(w)' /\ ~Free(w)
        /\ \A v \in Wave!Worker : v # w =>
             /\ (Free(v)' <=> Free(v))
             /\ (Waits(v)' <=> Waits(v)) /\ (Works(v)' <=> Works(v))
             /\ (Returns(v)' <=> Returns(v))
    BY <1>2, <1>3, <2>1 DEF Free, Waits, Works, Returns, TaskOf
  <2>3. \A v \in Wave!Worker : \A e : Left(v, e)' <=> Left(v, e)
    BY <1>2, <2>1, <2>2 DEF Left, Free, Returns, Waits, Works
  <2>4. {v \in S : Free(v)'} = F \cup {w}
    BY <1>4, <2>2
  <2>5. done' = Cardinality({v \in S : Free(v)'})
    BY <1>5, <2>1, <2>4
  <2>6. M' = [c \in Wave!Cell |->
                IF c[1] < diag' \/ (c[1] = diag' /\ \A v \in Wave!Worker : ~Left(v, c[2])')
                THEN "ok" ELSE "zero"]
    BY <1>1, <1>2, <2>1, <2>3 DEF InDiagonal
  <2>7. \A v \in Wave!Worker : \/ Free(v)'
                               \/ /\ v \in Wave!Scheduled(N - diag)
                                  /\ Waits(v)' \/ Works(v)' \/ Returns(v)'
    BY <1>1, <2>2 DEF InDiagonal
  <2>. QED
    BY <1>1, <1>2, <1>3, <2>1, <2>5, <2>6, <2>7 DEF InDiagonal, Channels
<1>. QED
  BY <1>6, <1>7

(* The emitter has EOS from every worker.                                   *)
LEMMA WaveEmitterEndsStep ==
  ASSUME Channels, BeforeFirst \/ InDiagonal \/ Closing \/ Closed, Wave!EmitterEnds
  PROVE  Channels' /\ Closed' /\ M' = M
<1>1. 0 \in Wave!Worker
  BY WavefrontAssumption DEF Wave!Worker
<1>2. /\ UNCHANGED <<M, send, done, diag, waveInput, elem, waveWorker>>
      /\ feedback' = [w \in Wave!Worker |-> <<>>] /\ waveEmitter' = "ended"
      /\ waveEmitter = "running" /\ \A w \in Wave!Worker : feedback[w] = <<Wave!EOS>>
  BY DEF Wave!EmitterEnds
<1>3. ~InDiagonal
  <2>. SUFFICES ASSUME InDiagonal PROVE FALSE
    OBVIOUS
  <2>1. feedback[0] \in {<<>>, <<TaskOf(0)>>}
    BY <1>1 DEF InDiagonal, Free, Waits, Works, Returns
  <2>2. TaskOf(0) # Wave!EOS
    BY TasksAreNotEOS DEF TaskOf
  <2>. QED
    BY <1>1, <1>2, <2>1, <2>2
<1>4. Closing
  BY <1>2, <1>3 DEF BeforeFirst, Closed
<1>5. \A w \in Wave!Worker : waveInput[w] = <<>> /\ waveWorker[w] = "ended"
  BY <1>2, <1>4 DEF Closing
<1>. QED
  BY <1>2, <1>4, <1>5 DEF Closing, Closed, AllOk, Channels

(* A worker takes the task in its queue.                                    *)
LEMMA BeginTaskStep ==
  ASSUME Channels, BeforeFirst \/ InDiagonal \/ Closing \/ Closed,
         NEW w \in Wave!Worker, Wave!BeginTask(w)
  PROVE  Channels' /\ InDiagonal' /\ M' = M
<1>1. InDiagonal
  BY DEF BeforeFirst, Closing, Closed, Free, Wave!BeginTask
<1>2. Waits(w) /\ w \in Wave!Scheduled(N - diag)
  BY <1>1 DEF InDiagonal, Wave!BeginTask, Free, Works, Returns
<1>3. elem' = [elem EXCEPT ![w] = Wave!From(w, N - diag)]
  <2>1. Head(waveInput[w]) = TaskOf(w)
    BY <1>2 DEF Waits
  <2>2. TaskOf(w).from_elem = Wave!From(w, N - diag)
    BY DEF TaskOf
  <2>. QED
    BY <2>1, <2>2 DEF Wave!BeginTask
<1>4. /\ waveWorker' = [waveWorker EXCEPT ![w] = "busy"]
      /\ UNCHANGED <<M, send, done, diag, waveEmitter, waveInput, feedback>>
  BY DEF Wave!BeginTask
<1>5. /\ DOMAIN elem' = Wave!Worker /\ DOMAIN waveWorker' = Wave!Worker
      /\ elem'[w] = Wave!From(w, N - diag) /\ waveWorker'[w] = "busy"
      /\ \A v \in Wave!Worker : v # w => elem'[v] = elem[v] /\ waveWorker'[v] = waveWorker[v]
  BY <1>3, <1>4 DEF Channels
<1>6. N - diag \in Nat
  BY <1>1, WavefrontAssumption DEF InDiagonal
<1>7. /\ Wave!From(w, N - diag) \in Nat /\ Wave!To(w, N - diag) \in Nat
      /\ Wave!From(w, N - diag) <= Wave!To(w, N - diag)
  BY <1>6, Shares
<1>8. /\ Works(w)' /\ ~Waits(w)' /\ ~Free(w)' /\ ~Free(w) /\ ~Works(w)
      /\ \A v \in Wave!Worker : v # w =>
           /\ (Free(v)' <=> Free(v))
           /\ (Waits(v)' <=> Waits(v)) /\ (Works(v)' <=> Works(v))
           /\ (Returns(v)' <=> Returns(v))
  BY <1>2, <1>4, <1>5, <1>7 DEF Free, Waits, Works, Returns, TaskOf
<1>9. \A v \in Wave!Worker : \A e : Left(v, e)' <=> Left(v, e)
  BY <1>2, <1>4, <1>5, <1>8 DEF Left
<1>10. M' = [c \in Wave!Cell |->
               IF c[1] < diag' \/ (c[1] = diag' /\ \A v \in Wave!Worker : ~Left(v, c[2])')
               THEN "ok" ELSE "zero"]
  BY <1>1, <1>4, <1>9 DEF InDiagonal
<1>11. \A v \in Wave!Worker : \/ Free(v)'
                              \/ /\ v \in Wave!Scheduled(N - diag)
                                 /\ Waits(v)' \/ Works(v)' \/ Returns(v)'
  BY <1>1, <1>2, <1>8 DEF InDiagonal
<1>12. {v \in Wave!Scheduled(N - diag) : Free(v)'} = {v \in Wave!Scheduled(N - diag) : Free(v)}
  BY <1>8, FewTasks
<1>. QED
  BY <1>1, <1>4, <1>5, <1>10, <1>11, <1>12 DEF InDiagonal, Channels

(* A worker computes an element: its factors are there, it is not.          *)
LEMMA ComputeElemStep ==
  ASSUME Channels, BeforeFirst \/ InDiagonal \/ Closing \/ Closed,
         NEW w \in Wave!Worker, Wave!ComputeElem(w)
  PROVE  Channels' /\ InDiagonal' /\ \E c \in Wave!Cell : Wave!Compute(c)
<1>1. InDiagonal
  BY DEF BeforeFirst, Closing, Closed, Free, Wave!ComputeElem
<1>2. Works(w) /\ w \in Wave!Scheduled(N - diag)
  BY <1>1 DEF InDiagonal, Wave!ComputeElem, Free, Waits, Returns
<1>. DEFINE e == elem[w]
            c == <<diag, e>>
<1>3. /\ e < Wave!To(w, N - diag)
      /\ M' = [M EXCEPT ![c] = Wave!DotProduct(M, c)]
      /\ elem' = [elem EXCEPT ![w] = e + 1]
      /\ UNCHANGED <<send, done, diag, waveEmitter, waveInput, feedback, waveWorker>>
  <2>1. Head(waveInput[w]) = TaskOf(w)
    BY <1>2 DEF Works
  <2>2. TaskOf(w).to_elem = Wave!To(w, N - diag) /\ TaskOf(w).diagonal = diag
    BY DEF TaskOf
  <2>. QED
    BY <2>1, <2>2 DEF Wave!ComputeElem
<1>4. N - diag \in Nat /\ diag \in 1 .. N - 1 /\ N \in Nat
  BY <1>1, WavefrontAssumption DEF InDiagonal
<1>5. /\ \A v \in Wave!Worker :
           /\ Wave!From(v, N - diag) \in Nat /\ Wave!To(v, N - diag) \in Nat
           /\ Wave!From(v, N - diag) <= Wave!To(v, N - diag)
           /\ Wave!To(v, N - diag) <= N - diag
      /\ \A v, u \in Wave!Worker :
           v < u => Wave!To(v, N - diag) <= Wave!From(u, N - diag)
  BY <1>4, Shares
<1>6. e \in Nat /\ e >= Wave!From(w, N - diag) /\ e \in 0 .. N - 1 - diag
  BY <1>2, <1>3, <1>4, <1>5 DEF Works
<1>7. c \in Wave!Cell /\ c[1] = diag /\ c[2] = e /\ diag \in 0 .. N - 1
  BY <1>4, <1>6, Cells
<1>8. Left(w, e)
  BY <1>2, <1>3, <1>5, <1>6 DEF Left
<1>9. M[c] = "zero"
  BY <1>1, <1>4, <1>7, <1>8 DEF InDiagonal
<1>10. \A x \in Wave!Reads(c) : M[x] = "ok"
  <2>1. \A x \in Wave!Reads(c) : x \in Wave!Cell /\ x[1] < diag
    BY <1>4, <1>6, <1>7, ReadsBehind
  <2>. QED
    BY <1>1, <2>1 DEF InDiagonal
<1>11. Wave!DotProduct(M, c) = "ok"
  BY <1>4, <1>7, <1>10 DEF Wave!DotProduct
<1>12. M' = [M EXCEPT ![c] = "ok"]
  BY <1>3, <1>11
<1>13. Wave!Compute(c)
  BY <1>9, <1>10, <1>12 DEF Wave!Compute
<1>14. /\ DOMAIN elem' = Wave!Worker /\ elem'[w] = e + 1
       /\ \A v \in Wave!Worker : v # w => elem'[v] = elem[v]
  BY <1>3 DEF Channels
<1>15. /\ Works(w)'
       /\ \A v \in Wave!Worker :
            /\ (Free(v)' <=> Free(v))
            /\ (Waits(v)' <=> Waits(v)) /\ (Returns(v)' <=> Returns(v))
            /\ v # w => (Works(v)' <=> Works(v))
  BY <1>2, <1>3, <1>5, <1>6, <1>14 DEF Free, Waits, Works, Returns, TaskOf
<1>16. \A f \in Nat : Left(w, f)' <=> Left(w, f) /\ f # e
  <2>1. ~Waits(w) /\ ~Waits(w)'
    BY <1>2, <1>15 DEF Waits, Works
  <2>. QED
    BY <1>2, <1>3, <1>5, <1>6, <1>14, <1>15, <2>1 DEF Left
<1>17. \A v \in Wave!Worker : v # w => \A f \in Nat : (Left(v, f)' <=> Left(v, f))
  BY <1>3, <1>14, <1>15 DEF Left
<1>18. ASSUME NEW v \in Wave!Worker, v # w
       PROVE  ~Left(v, e)
  <2>1. e \notin Wave!From(v, N - diag) .. Wave!To(v, N - diag) - 1
    <3>1. w \in Int /\ v \in Int /\ (v < w \/ w < v)
      BY <1>18, WavefrontAssumption DEF Wave!Worker
    <3>. QED
      BY <1>3, <1>5, <1>6, <3>1
  <2>2. Works(v) => elem[v] \in Nat /\ elem[v] >= Wave!From(v, N - diag)
    BY <1>5 DEF Works
  <2>. QED
    BY <1>5, <1>6, <2>1, <2>2 DEF Left
<1>19. M' = [x \in Wave!Cell |->
               IF x[1] < diag' \/ (x[1] = diag' /\ \A v \in Wave!Worker : ~Left(v, x[2])')
               THEN "ok" ELSE "zero"]
  <2>1. ASSUME NEW x \in Wave!Cell
        PROVE  M'[x] = IF x[1] < diag \/ (x[1] = diag /\ \A v \in Wave!Worker : ~Left(v, x[2])')
                       THEN "ok" ELSE "zero"
    <3>1. x[2] \in Nat /\ x[1] \in Nat /\ x = <<x[1], x[2]>>
      BY Cells
    <3>2. M[x] = IF x[1] < diag \/ (x[1] = diag /\ \A v \in Wave!Worker : ~Left(v, x[2]))
                 THEN "ok" ELSE "zero"
      BY <1>1 DEF InDiagonal
    <3>3. CASE x = c
      <4>1. x[1] = diag /\ x[2] = e /\ M'[x] = "ok"
        BY <1>1, <1>7, <1>12, <3>3 DEF InDiagonal
      <4>2. \A v \in Wave!Worker : ~Left(v, x[2])'
        BY <1>6, <1>16, <1>17, <1>18, <4>1
      <4>. QED
        BY <4>1, <4>2
    <3>4. CASE x # c
      <4>1. M'[x] = M[x]
        BY <1>1, <1>12, <3>4 DEF InDiagonal
      <4>2. x[1] = diag => x[2] # e
        BY <3>1, <3>4
      <4>3. x[1] = diag => \A v \in Wave!Worker : Left(v, x[2])' <=> Left(v, x[2])
        BY <1>16, <1>17, <3>1, <4>2
      <4>. QED
        BY <3>2, <4>1, <4>3
    <3>. QED
      BY <3>3, <3>4
  <2>2. M' = [x \in Wave!Cell |-> M'[x]]
    BY <1>1, <1>12 DEF InDiagonal
  <2>. QED
    BY <1>3, <2>1, <2>2
<1>20. \A v \in Wave!Worker : \/ Free(v)'
                              \/ /\ v \in Wave!Scheduled(N - diag)
                                 /\ Waits(v)' \/ Works(v)' \/ Returns(v)'
  BY <1>1, <1>2, <1>15 DEF InDiagonal
<1>21. {v \in Wave!Scheduled(N - diag) : Free(v)'} = {v \in Wave!Scheduled(N - diag) : Free(v)}
  BY <1>15, FewTasks
<1>. QED
  BY <1>1, <1>3, <1>7, <1>13, <1>14, <1>19, <1>20, <1>21 DEF InDiagonal, Channels

(* A worker returns its task.                                               *)
LEMMA ReturnTaskStep ==
  ASSUME Channels, BeforeFirst \/ InDiagonal \/ Closing \/ Closed,
         NEW w \in Wave!Worker, Wave!ReturnTask(w)
  PROVE  Channels' /\ InDiagonal' /\ M' = M
<1>1. InDiagonal
  BY DEF BeforeFirst, Closing, Closed, Free, Wave!ReturnTask
<1>2. Works(w) /\ w \in Wave!Scheduled(N - diag)
  BY <1>1 DEF InDiagonal, Wave!ReturnTask, Free, Waits, Returns
<1>3. /\ elem[w] >= Wave!To(w, N - diag)
      /\ feedback' = [feedback EXCEPT ![w] = <<TaskOf(w)>>]
      /\ waveInput' = [waveInput EXCEPT ![w] = <<>>]
      /\ waveWorker' = [waveWorker EXCEPT ![w] = "idle"]
      /\ UNCHANGED <<M, send, done, diag, waveEmitter, elem>>
  <2>1. Head(waveInput[w]) = TaskOf(w) /\ Tail(waveInput[w]) = <<>>
        /\ Append(feedback[w], TaskOf(w)) = <<TaskOf(w)>>
    BY <1>2, AppendToEmpty DEF Works
  <2>2. TaskOf(w).to_elem = Wave!To(w, N - diag)
    BY DEF TaskOf
  <2>. QED
    BY <2>1, <2>2 DEF Wave!ReturnTask
<1>4. /\ DOMAIN feedback' = Wave!Worker /\ DOMAIN waveInput' = Wave!Worker
      /\ DOMAIN waveWorker' = Wave!Worker
      /\ feedback'[w] = <<TaskOf(w)>> /\ waveInput'[w] = <<>> /\ waveWorker'[w] = "idle"
      /\ \A v \in Wave!Worker : v # w =>
           /\ feedback'[v] = feedback[v] /\ waveInput'[v] = waveInput[v]
           /\ waveWorker'[v] = waveWorker[v]
  BY <1>3 DEF Channels
<1>5. /\ Returns(w)' /\ ~Free(w)' /\ ~Free(w) /\ ~Waits(w)' /\ ~Works(w)' /\ ~Waits(w)
      /\ \A v \in Wave!Worker : v # w =>
           /\ (Free(v)' <=> Free(v))
           /\ (Waits(v)' <=> Waits(v)) /\ (Works(v)' <=> Works(v))
           /\ (Returns(v)' <=> Returns(v))
  BY <1>2, <1>3, <1>4 DEF Free, Waits, Works, Returns, TaskOf
<1>6. \A e \in Nat : ~Left(w, e) /\ ~Left(w, e)'
  <2>1. N - diag \in Nat
    BY <1>1, WavefrontAssumption DEF InDiagonal
  <2>2. Wave!To(w, N - diag) \in Nat /\ Wave!From(w, N - diag) \in Nat
    BY <2>1, Shares
  <2>3. elem[w] \in Nat
    BY <1>2, <2>2 DEF Works
  <2>. QED
    BY <1>3, <1>5, <2>2, <2>3 DEF Left
<1>7. \A v \in Wave!Worker : \A e \in Nat : Left(v, e)' <=> Left(v, e)
  BY <1>3, <1>5, <1>6 DEF Left
<1>8. M' = [c \in Wave!Cell |->
              IF c[1] < diag' \/ (c[1] = diag' /\ \A v \in Wave!Worker : ~Left(v, c[2])')
              THEN "ok" ELSE "zero"]
  <2>1. \A c \in Wave!Cell : c[2] \in Nat
    BY Cells
  <2>. QED
    BY <1>1, <1>3, <1>7, <2>1 DEF InDiagonal
<1>9. \A v \in Wave!Worker : \/ Free(v)'
                             \/ /\ v \in Wave!Scheduled(N - diag)
                                /\ Waits(v)' \/ Works(v)' \/ Returns(v)'
  BY <1>1, <1>2, <1>5 DEF InDiagonal
<1>10. {v \in Wave!Scheduled(N - diag) : Free(v)'} = {v \in Wave!Scheduled(N - diag) : Free(v)}
  BY <1>5, FewTasks
<1>. QED
  BY <1>1, <1>3, <1>4, <1>8, <1>9, <1>10 DEF InDiagonal, Channels

(* A worker ends.                                                           *)
LEMMA WorkerEndsStep ==
  ASSUME Channels, BeforeFirst \/ InDiagonal \/ Closing \/ Closed,
         NEW w \in Wave!Worker, Wave!WorkerEnds(w)
  PROVE  Channels' /\ Closing' /\ M' = M
<1>1. ~InDiagonal
  <2>. SUFFICES ASSUME InDiagonal PROVE FALSE
    OBVIOUS
  <2>1. waveInput[w] \in {<<>>, <<TaskOf(w)>>}
    BY DEF InDiagonal, Free, Waits, Works, Returns
  <2>2. TaskOf(w) # Wave!EOS
    BY TasksAreNotEOS DEF TaskOf
  <2>. QED
    BY <2>1, <2>2 DEF Wave!WorkerEnds
<1>2. Closing /\ feedback[w] = <<>> /\ waveInput[w] = <<Wave!EOS>>
  BY <1>1 DEF BeforeFirst, Closing, Closed, Free, Wave!WorkerEnds
<1>3. /\ feedback' = [feedback EXCEPT ![w] = <<Wave!EOS>>]
      /\ waveInput' = [waveInput EXCEPT ![w] = <<>>]
      /\ waveWorker' = [waveWorker EXCEPT ![w] = "ended"]
      /\ UNCHANGED <<M, send, done, diag, waveEmitter, elem>>
  <2>1. Tail(waveInput[w]) = <<>> /\ Append(feedback[w], Wave!EOS) = <<Wave!EOS>>
    BY <1>2, AppendToEmpty
  <2>. QED
    BY <2>1 DEF Wave!WorkerEnds
<1>4. /\ DOMAIN feedback' = Wave!Worker /\ DOMAIN waveInput' = Wave!Worker
      /\ DOMAIN waveWorker' = Wave!Worker
      /\ feedback'[w] = <<Wave!EOS>> /\ waveInput'[w] = <<>> /\ waveWorker'[w] = "ended"
      /\ \A v \in Wave!Worker : v # w =>
           /\ feedback'[v] = feedback[v] /\ waveInput'[v] = waveInput[v]
           /\ waveWorker'[v] = waveWorker[v]
  BY <1>3 DEF Channels
<1>. QED
  BY <1>2, <1>3, <1>4 DEF Closing, AllOk, Channels

(* A step of another program keeps what is said of the wavefront.           *)
LEMMA WaveStutter ==
  ASSUME Channels, BeforeFirst \/ InDiagonal \/ Closing \/ Closed, UNCHANGED wavefrontVars
  PROVE  Channels' /\ (BeforeFirst \/ InDiagonal \/ Closing \/ Closed)'
<1>1. UNCHANGED <<M, send, done, diag, waveEmitter, waveInput, feedback, elem, waveWorker>>
  BY DEF wavefrontVars
<1>2. Channels'
  BY <1>1 DEF Channels
<1>3. BeforeFirst => BeforeFirst'
  BY <1>1 DEF BeforeFirst, Free
<1>4. InDiagonal => InDiagonal'
  BY <1>1 DEF InDiagonal, Free, Waits, Works, Returns, Left, TaskOf
<1>5. (Closing => Closing') /\ (Closed => Closed')
  BY <1>1 DEF Closing, Closed, AllOk
<1>. QED
  BY <1>2, <1>3, <1>4, <1>5

(* Every step keeps the invariant and computes at most one element.         *)
LEMMA WaveStep ==
  ASSUME Channels, BeforeFirst \/ InDiagonal \/ Closing \/ Closed, Wave!FFNext
  PROVE  /\ Channels' /\ (BeforeFirst \/ InDiagonal \/ Closing \/ Closed)'
         /\ M' = M \/ \E c \in Wave!Cell : Wave!Compute(c)
<1>1. CASE Wave!FirstCall
  BY <1>1, FirstCallStep
<1>2. CASE \E w \in Wave!Worker : Wave!TaskDone(w)
  BY <1>2, TaskDoneStep
<1>3. CASE Wave!EmitterEnds
  BY <1>3, WaveEmitterEndsStep
<1>4. ASSUME NEW w \in Wave!Worker, Wave!WorkerStep(w)
      PROVE  /\ Channels' /\ (BeforeFirst \/ InDiagonal \/ Closing \/ Closed)'
             /\ M' = M \/ \E c \in Wave!Cell : Wave!Compute(c)
  BY <1>4, BeginTaskStep, ComputeElemStep, ReturnTaskStep, WorkerEndsStep DEF Wave!WorkerStep
<1>5. CASE Wave!Ended
  BY <1>5, WaveStutter DEF Wave!Ended, Wave!vars, wavefrontVars
<1>. QED
  BY <1>1, <1>2, <1>3, <1>4, <1>5 DEF Wave!FFNext, Wave!Emitter

(* The tasks in a queue that is empty, or holds a task or EOS.              *)
LEMMA TasksIn ==
  /\ Cardinality(Wave!Tasks(<<>>)) = 0 /\ Wave!Tasks(<<>>) = {}
  /\ Wave!Tasks(<<Wave!EOS>>) = {} /\ Cardinality(Wave!Tasks(<<Wave!EOS>>)) = 0
  /\ \A m : m # Wave!EOS => /\ Wave!Tasks(<<m>>) = {1}
                            /\ Cardinality(Wave!Tasks(<<m>>)) = 1
<1>1. Wave!Tasks(<<>>) = {} /\ Wave!Tasks(<<Wave!EOS>>) = {}
  BY DEF Wave!Tasks
<1>2. \A m : m # Wave!EOS => Wave!Tasks(<<m>>) = {1}
  BY DEF Wave!Tasks
<1>. QED
  BY <1>1, <1>2, FS_EmptySet, FS_Singleton

(* The invariant says that send - done is the number of tasks on their way, *)
(* and that no worker sees EOS before the matrix is complete.               *)
LEMMA WaveCounts ==
  ASSUME WaveInv, network = "wavefront"
  PROVE  Wave!CountsInFlight
<1>. DEFINE out(w) == Wave!Cardinality(Wave!Tasks(waveInput[w]))
                        + Wave!Cardinality(Wave!Tasks(feedback[w]))
            Sum[S \in SUBSET Wave!Worker] ==
              IF S = {} THEN 0 ELSE LET w == CHOOSE x \in S : TRUE IN out(w) + Sum[S \ {w}]
            T == IF InDiagonal THEN {w \in Wave!Scheduled(N - diag) : ~Free(w)} ELSE {}
            F == [w \in Wave!Worker |-> IF w \in T THEN 1 ELSE 0]
            Rec(g) == [S \in SUBSET Wave!Worker |->
              IF S = {} THEN 0 ELSE LET w == CHOOSE x \in S : TRUE IN out(w) + g[S \ {w}]]
<1>1. Channels /\ (BeforeFirst \/ InDiagonal \/ Closing \/ Closed)
  BY DEF WaveInv
<1>2. TaskOf(0) # Wave!EOS /\ \A w : TaskOf(w) # Wave!EOS
  BY TasksAreNotEOS DEF TaskOf
<1>3. ASSUME NEW w \in Wave!Worker
      PROVE  /\ out(w) = F[w]
             /\ \A i \in Wave!Tasks(waveInput[w]) : waveInput[w][i].diagonal = diag
  <2>1. /\ out(w) = Cardinality(Wave!Tasks(waveInput[w])) + Cardinality(Wave!Tasks(feedback[w]))
        /\ F[w] = IF w \in T THEN 1 ELSE 0
    BY WaveCardinality
  <2>2. CASE InDiagonal /\ Free(w)
    <3>1. w \notin T /\ waveInput[w] = <<>> /\ feedback[w] = <<>>
      BY <2>2 DEF Free
    <3>. QED
      BY <2>1, <3>1, TasksIn
  <2>3. CASE InDiagonal /\ ~Free(w)
    <3>1. /\ w \in Wave!Scheduled(N - diag)
          /\ \/ waveInput[w] = <<TaskOf(w)>> /\ feedback[w] = <<>>
             \/ waveInput[w] = <<>> /\ feedback[w] = <<TaskOf(w)>>
      BY <2>3 DEF InDiagonal, Waits, Works, Returns
    <3>2. w \in T
      BY <2>3, <3>1
    <3>3. TaskOf(w).diagonal = diag
      BY DEF TaskOf
    <3>4. F[w] = 1
      BY <2>1, <3>2
    <3>5. CASE waveInput[w] = <<TaskOf(w)>> /\ feedback[w] = <<>>
      <4>1. out(w) = 1 /\ Wave!Tasks(waveInput[w]) = {1}
        BY <1>2, <2>1, <3>5, TasksIn
      <4>. QED
        BY <3>3, <3>4, <3>5, <4>1
    <3>6. CASE waveInput[w] = <<>> /\ feedback[w] = <<TaskOf(w)>>
      <4>1. out(w) = 1 /\ Wave!Tasks(waveInput[w]) = {}
        BY <1>2, <2>1, <3>6, TasksIn
      <4>. QED
        BY <3>4, <4>1
    <3>. QED
      BY <3>1, <3>5, <3>6
  <2>4. CASE ~InDiagonal
    <3>1. /\ waveInput[w] \in {<<>>, <<Wave!EOS>>} /\ feedback[w] \in {<<>>, <<Wave!EOS>>}
          /\ w \notin T
      BY <1>1, <2>4 DEF BeforeFirst, Closing, Closed, Free
    <3>. QED
      BY <2>1, <3>1, TasksIn
  <2>. QED
    BY <2>2, <2>3, <2>4
<1>4. T \in SUBSET Wave!Worker /\ IsFiniteSet(Wave!Worker)
  BY FewTasks, FS_Interval, WavefrontAssumption DEF Wave!Worker
<1>5. SumOver(F, Wave!Worker) = Cardinality(T)
  <2>1. \A w \in Wave!Worker : F[w] = IF w \in T THEN 1 ELSE 0
    OBVIOUS
  <2>. HIDE DEF F, T
  <2>. QED
    BY <1>4, <2>1, SumIndicator
<1>6. Cardinality(T) = send - done
  <2>1. CASE InDiagonal
    <3>. DEFINE S == Wave!Scheduled(N - diag)
                G == {w \in S : Free(w)}
    <3>1. T = S \ G /\ S \cap G = G /\ IsFiniteSet(S) /\ IsFiniteSet(G)
      BY <2>1, FewTasks, FS_Subset
    <3>2. Cardinality(S) \in Nat /\ Cardinality(G) \in Nat
      BY <3>1, FS_CardinalityType
    <3>3. Cardinality(S \ G) = Cardinality(S) - Cardinality(G)
      <4>. HIDE DEF S, G, T
      <4>. QED BY <3>1, FS_Difference
    <3>. QED
      BY <2>1, <3>1, <3>2, <3>3 DEF InDiagonal
  <2>2. CASE ~InDiagonal
    <3>1. T = {} /\ send = 0 /\ done = 0
      BY <1>1, <2>2 DEF BeforeFirst, Closing, Closed
    <3>. QED
      BY <3>1, FS_EmptySet
  <2>. QED
    BY <2>1, <2>2
<1>. HIDE DEF out, F, T
<1>7. \A g : g = Rec(g) <=> Adds(g, F, SUBSET Wave!Worker)
  <2>. SUFFICES ASSUME NEW g
                PROVE  Rec(g) = [s \in SUBSET Wave!Worker |->
                                   IF s = {} THEN 0 ELSE F[Any(s)] + g[s \ {Any(s)}]]
    BY DEF Adds
  <2>1. \A s \in SUBSET Wave!Worker : s # {} => Any(s) \in Wave!Worker
    BY AnyInSet
  <2>. QED
    BY <1>3, <2>1 DEF Any
<1>8. Sum = Rec(Sum)
  <2>1. \E g : g = Rec(g)
    BY <1>4, <1>7, SumAdds
  <2>. QED
    BY <2>1
<1>9. Sum[Wave!Worker] = send - done
  <2>1. Adds(Sum, F, SUBSET Wave!Worker)
    BY <1>7, <1>8
  <2>. HIDE DEF Sum
  <2>. QED
    BY <1>4, <1>5, <1>6, <2>1, SumAdds
<1>. QED
  BY <1>3, <1>9 DEF Wave!CountsInFlight, out

(* Nobody sees EOS before the matrix is complete.                           *)
LEMMA WaveEOS ==
  ASSUME WaveInv, network = "wavefront"
  PROVE  Wave!EOSMeansComplete
<1>1. Channels /\ (BeforeFirst \/ InDiagonal \/ Closing \/ Closed)
  BY DEF WaveInv
<1>2. AllOk => Wave!EOSMeansComplete
  BY DEF AllOk, Wave!EOSMeansComplete
<1>3. ASSUME BeforeFirst \/ InDiagonal, NEW w \in Wave!Worker
      PROVE  /\ waveWorker[w] # "ended"
             /\ Wave!EOS \notin {waveInput[w][i] : i \in DOMAIN waveInput[w]}
  <2>1. TaskOf(w) # Wave!EOS
    BY TasksAreNotEOS DEF TaskOf
  <2>2. /\ waveWorker[w] # "ended"
        /\ waveInput[w] = <<>> \/ waveInput[w] = <<TaskOf(w)>>
    BY <1>3 DEF BeforeFirst, InDiagonal, Free, Waits, Works, Returns
  <2>. QED
    BY <2>1, <2>2
<1>. QED
  BY <1>1, <1>2, <1>3 DEF Closing, Closed, Wave!EOSMeansComplete

-----------------------------------------------------------------------------
(* termination_with_loop.cpp: the two loops.                                *)

Items(q) == Among(q, 1 .. length)
Occurs(q, i) == Among(q, {i})

(* What Stage_B has not sent to Stage_1 yet.                                *)
NotForwarded == IF forwarded THEN Tail(toB) ELSE toB

LoopTypes ==
  /\ toA \in Seq(0 .. length) /\ toB \in Seq(0 .. length) /\ to1 \in Seq(0 .. length)
  /\ loopA \in Seq(0 .. length) /\ loop0 \in Seq(0 .. length)
  /\ emitted \in 0 .. length /\ returned \in Nat /\ onthefly \in Nat
  /\ forwarded \in BOOLEAN /\ eosreceived \in BOOLEAN
  /\ printed \in [1 .. length -> Nat]

(* The item Stage_B is about to send back is at the head of its queue.      *)
Forwarding == forwarded => toB # <<>> /\ Head(toB) # 0 /\ stageB = "running"

(* Every item is in the outer loop once, until it has come round; the items *)
(* in the inner loop are counted.                                           *)
OuterLoop ==
  emitted = Items(toA) + Items(NotForwarded) + Items(to1) + Items(loop0) + returned
InnerLoop == onthefly = Items(toB) + Items(loopA)

(* Stage_1 has an item, or it is before it.                                 *)
ItemOnce(i) ==
  printed[i] + Occurs(to1, i) + Occurs(NotForwarded, i) + Occurs(toA, i)
    + (IF i > emitted THEN 1 ELSE 0) = 1

(* EOS in a loop: the outer one has ended, the inner one is empty.          *)
OuterEnd == Occurs(toA, 0) > 0 \/ eosreceived \/ stage0 = "ended" => returned = length
InnerEnd ==
  /\ Occurs(toB, 0) > 0 \/ stageB = "ended" => returned = length /\ onthefly = 0
  /\ Occurs(loopA, 0) > 0 => stageB = "ended"

LoopParts ==
  /\ LoopTypes /\ Forwarding /\ OuterLoop /\ InnerLoop /\ OuterEnd /\ InnerEnd
  /\ \A i \in 1 .. length : ItemOnce(i)

LoopInv == network = "loops" => LoopParts

(* What the counts of a queue say of its elements.                          *)
LEMMA QueueCounts ==
  ASSUME NEW q \in Seq(0 .. length)
  PROVE  /\ Items(q) \in Nat /\ \A i : Occurs(q, i) \in Nat
         /\ Items(q) = 0 => \A i \in 1 .. length : Occurs(q, i) = 0
         /\ Items(<<>>) = 0 /\ \A i : Occurs(<<>>, i) = 0
<1>1. /\ Items(q) \in Nat /\ \A i : Occurs(q, i) \in Nat
      /\ Items(<<>>) = 0 /\ \A i : Occurs(<<>>, i) = 0
  BY AmongType, AmongEmpty DEF Items, Occurs
<1>2. ASSUME Items(q) = 0, NEW i \in 1 .. length
      PROVE  Occurs(q, i) = 0
  <2>1. \A k \in DOMAIN q : q[k] \notin 1 .. length
    BY <1>2, AmongType DEF Items
  <2>2. \A k \in DOMAIN q : q[k] \notin {i}
    BY <2>1
  <2>. QED
    BY <2>2, AmongType DEF Occurs
<1>. QED
  BY <1>1, <1>2

(* The counts of a queue after a message was sent to it.                    *)
LEMMA QueueAppend ==
  ASSUME NEW q \in Seq(0 .. length), NEW m \in 0 .. length
  PROVE  /\ Append(q, m) \in Seq(0 .. length) /\ Append(q, m) # <<>>
         /\ Items(Append(q, m)) = Items(q) + (IF m = 0 THEN 0 ELSE 1)
         /\ \A i : Occurs(Append(q, m), i) = Occurs(q, i) + (IF m = i THEN 1 ELSE 0)
         /\ q # <<>> => /\ Head(Append(q, m)) = Head(q)
                        /\ Tail(Append(q, m)) = Append(Tail(q), m)
<1>1. Append(q, m) \in Seq(0 .. length) /\ Append(q, m) # <<>>
  OBVIOUS
<1>2. Items(Append(q, m)) = Items(q) + (IF m \in 1 .. length THEN 1 ELSE 0)
  BY AmongAppend DEF Items
<1>3. m \in 1 .. length <=> m # 0
  BY FarmAssumption
<1>4. \A i : Occurs(Append(q, m), i) = Occurs(q, i) + (IF m \in {i} THEN 1 ELSE 0)
  BY AmongAppend DEF Occurs
<1>5. ASSUME q # <<>>
      PROVE  Head(Append(q, m)) = Head(q) /\ Tail(Append(q, m)) = Append(Tail(q), m)
  <2>1. PICK p : p = Append(q, m)
    OBVIOUS
  <2>2. /\ p \in Seq(0 .. length) /\ Len(q) \in Nat \ {0} /\ Len(p) = Len(q) + 1
        /\ p[Len(q) + 1] = m /\ \A k \in 1 .. Len(q) : p[k] = q[k]
    BY <1>5, <2>1
  <2>3. /\ Tail(p) \in Seq(0 .. length) /\ Len(Tail(p)) = Len(q)
        /\ \A k \in 1 .. Len(q) : Tail(p)[k] = p[k + 1]
    BY <2>2
  <2>4. /\ Tail(q) \in Seq(0 .. length) /\ Len(Tail(q)) = Len(q) - 1
        /\ \A k \in 1 .. Len(q) - 1 : Tail(q)[k] = q[k + 1]
    BY <1>5, <2>2
  <2>5. PICK t : t = Append(Tail(q), m)
    OBVIOUS
  <2>6. /\ t \in Seq(0 .. length) /\ Len(t) = Len(q) /\ t[Len(q)] = m
        /\ \A k \in 1 .. Len(q) - 1 : t[k] = q[k + 1]
    BY <2>2, <2>4, <2>5
  <2>7. \A k \in 1 .. Len(q) : t[k] = Tail(p)[k]
    <3>1. \A k \in 1 .. Len(q) : k \in 1 .. Len(q) - 1 \/ k = Len(q)
      BY <2>2
    <3>2. \A k \in 1 .. Len(q) - 1 : k + 1 \in 1 .. Len(q) /\ k \in 1 .. Len(q)
      BY <2>2
    <3>3. Len(q) \in 1 .. Len(q)
      BY <2>2
    <3>. QED
      BY <2>2, <2>3, <2>6, <3>1, <3>2, <3>3
  <2>8. t = Tail(p)
    BY <2>3, <2>6, <2>7
  <2>9. Head(p) = Head(q)
    BY <1>5, <2>2
  <2>. QED
    BY <2>1, <2>5, <2>8, <2>9
<1>6. Items(Append(q, m)) = Items(q) + (IF m = 0 THEN 0 ELSE 1)
  BY <1>2, <1>3
<1>. QED
  BY <1>1, <1>4, <1>5, <1>6

(* The counts of a queue after its head was taken.                          *)
LEMMA QueueTail ==
  ASSUME NEW q \in Seq(0 .. length), q # <<>>
  PROVE  /\ Head(q) \in 0 .. length /\ Tail(q) \in Seq(0 .. length)
         /\ Items(q) = Items(Tail(q)) + (IF Head(q) = 0 THEN 0 ELSE 1)
         /\ \A i : Occurs(q, i) = Occurs(Tail(q), i) + (IF Head(q) = i THEN 1 ELSE 0)
<1>1. Head(q) \in 0 .. length /\ Tail(q) \in Seq(0 .. length)
  BY TailRange
<1>2. Items(q) = Items(Tail(q)) + (IF Head(q) \in 1 .. length THEN 1 ELSE 0)
  BY AmongTail DEF Items
<1>3. Head(q) \in 1 .. length <=> Head(q) # 0
  BY <1>1, FarmAssumption
<1>4. \A i : Occurs(q, i) = Occurs(Tail(q), i) + (IF Head(q) \in {i} THEN 1 ELSE 0)
  BY AmongTail DEF Occurs
<1>. QED
  BY <1>1, <1>2, <1>3, <1>4

(* A message that joins Stage_B's queue has not been forwarded.             *)
LEMMA NotForwardedAppend ==
  ASSUME LoopParts, NEW m \in 0 .. length, toB' = Append(toB, m), forwarded' = forwarded
  PROVE  /\ NotForwarded \in Seq(0 .. length)
         /\ NotForwarded' = Append(NotForwarded, m)
         /\ Forwarding => (forwarded => toB' # <<>> /\ Head(toB') # 0)
<1>1. toB \in Seq(0 .. length) /\ (forwarded => toB # <<>> /\ Head(toB) # 0)
  BY DEF LoopParts, LoopTypes, Forwarding
<1>2. CASE forwarded
  BY <1>1, <1>2, QueueAppend, QueueTail DEF NotForwarded
<1>3. CASE ~forwarded
  BY <1>1, <1>3 DEF NotForwarded
<1>. QED
  BY <1>2, <1>3

(* What the invariant says of the numbers of items.                         *)
LEMMA LoopNumbers ==
  ASSUME LoopParts
  PROVE  /\ NotForwarded \in Seq(0 .. length)
         /\ Items(toB) = Items(NotForwarded) + (IF forwarded THEN 1 ELSE 0)
         /\ \A i : Occurs(NotForwarded, i) \in Nat /\ Occurs(NotForwarded, i) <= Occurs(toB, i)
         /\ \A q \in {toA, toB, NotForwarded, to1, loopA, loop0} :
              /\ Items(q) \in Nat
              /\ \A i : Occurs(q, i) \in Nat
              /\ Items(q) = 0 => \A i \in 1 .. length : Occurs(q, i) = 0
         /\ returned = length =>
              /\ emitted = length /\ Items(toA) = 0 /\ Items(NotForwarded) = 0
              /\ Items(to1) = 0 /\ Items(loop0) = 0
         /\ returned = length => \A i \in 1 .. length : printed[i] = 1
<1>1. /\ toA \in Seq(0 .. length) /\ toB \in Seq(0 .. length) /\ to1 \in Seq(0 .. length)
      /\ loopA \in Seq(0 .. length) /\ loop0 \in Seq(0 .. length)
      /\ forwarded \in BOOLEAN /\ (forwarded => toB # <<>> /\ Head(toB) # 0)
  BY DEF LoopParts, LoopTypes, Forwarding
<1>2. /\ NotForwarded \in Seq(0 .. length)
      /\ Items(toB) = Items(NotForwarded) + (IF forwarded THEN 1 ELSE 0)
      /\ \A i : Occurs(NotForwarded, i) \in Nat /\ Occurs(NotForwarded, i) <= Occurs(toB, i)
  <2>0. \A i : Occurs(toB, i) \in Nat
    BY <1>1, QueueCounts
  <2>1. CASE forwarded
    <3>1. /\ Tail(toB) \in Seq(0 .. length) /\ Items(toB) = Items(Tail(toB)) + 1
          /\ \A i : Occurs(toB, i) = Occurs(Tail(toB), i) + (IF Head(toB) = i THEN 1 ELSE 0)
      BY <1>1, <2>1, QueueTail
    <3>2. \A i : Occurs(Tail(toB), i) \in Nat
      BY <3>1, QueueCounts
    <3>. QED
      BY <2>0, <2>1, <3>1, <3>2 DEF NotForwarded
  <2>2. CASE ~forwarded
    <3>1. Items(toB) \in Nat
      BY <1>1, QueueCounts
    <3>. QED
      BY <1>1, <2>0, <2>2, <3>1 DEF NotForwarded
  <2>. QED
    BY <2>1, <2>2
<1>3. \A q \in {toA, toB, NotForwarded, to1, loopA, loop0} :
        /\ Items(q) \in Nat
        /\ \A i : Occurs(q, i) \in Nat
        /\ Items(q) = 0 => \A i \in 1 .. length : Occurs(q, i) = 0
  BY <1>1, <1>2, QueueCounts
<1>4. returned = length =>
        /\ emitted = length /\ Items(toA) = 0 /\ Items(NotForwarded) = 0
        /\ Items(to1) = 0 /\ Items(loop0) = 0
  <2>1. /\ emitted \in 0 .. length /\ length \in Nat
        /\ emitted = Items(toA) + Items(NotForwarded) + Items(to1) + Items(loop0) + returned
    BY FarmAssumption DEF LoopParts, LoopTypes, OuterLoop
  <2>2. /\ Items(toA) \in Nat /\ Items(NotForwarded) \in Nat
        /\ Items(to1) \in Nat /\ Items(loop0) \in Nat
    BY <1>3
  <2>. QED
    BY <2>1, <2>2
<1>5. ASSUME returned = length, NEW i \in 1 .. length
      PROVE  printed[i] = 1
  <2>1. /\ Occurs(toA, i) = 0 /\ Occurs(NotForwarded, i) = 0 /\ Occurs(to1, i) = 0
        /\ emitted = length
    BY <1>3, <1>4, <1>5
  <2>2. printed[i] \in Nat /\ ItemOnce(i)
    BY DEF LoopParts, LoopTypes
  <2>. QED
    BY <2>1, <2>2, FarmAssumption DEF ItemOnce
<1>. QED
  BY <1>2, <1>3, <1>4, <1>5

(* Stage_0 sends an item.                                                   *)
LEMMA GenerateStep ==
  ASSUME LoopParts, Loops!Generate
  PROVE  LoopParts'
<1>1. /\ emitted < length /\ emitted' = emitted + 1 /\ toA' = Append(toA, emitted + 1)
      /\ UNCHANGED <<returned, stage0, onthefly, eosreceived, eosA, stageA, forwarded,
                     stageB, stage1, toB, to1, loopA, loop0, printed>>
  BY DEF Loops!Generate, Loops!inner
<1>2. /\ toA \in Seq(0 .. length) /\ emitted \in Nat /\ emitted + 1 \in 0 .. length
      /\ emitted + 1 # 0
  BY <1>1, FarmAssumption DEF LoopParts, LoopTypes
<1>3. /\ toA' \in Seq(0 .. length) /\ Items(toA') = Items(toA) + 1
      /\ \A i : Occurs(toA', i) = Occurs(toA, i) + (IF emitted + 1 = i THEN 1 ELSE 0)
  BY <1>1, <1>2, QueueAppend
<1>4. NotForwarded' = NotForwarded
  BY <1>1 DEF NotForwarded
<1>5. LoopTypes'
  BY <1>1, <1>2, <1>3 DEF LoopParts, LoopTypes
<1>6. Forwarding' /\ InnerLoop'
  BY <1>1 DEF LoopParts, Forwarding, InnerLoop
<1>7. OuterLoop'
  <2>1. /\ Items(toA) \in Nat /\ Items(NotForwarded) \in Nat
        /\ Items(to1) \in Nat /\ Items(loop0) \in Nat /\ returned \in Nat
    BY LoopNumbers DEF LoopParts, LoopTypes
  <2>. QED
    BY <1>1, <1>3, <1>4, <2>1 DEF LoopParts, OuterLoop
<1>8. OuterEnd' /\ InnerEnd'
  <2>1. Occurs(toA', 0) = Occurs(toA, 0)
    BY <1>2, <1>3, LoopNumbers
  <2>. QED
    BY <1>1, <2>1 DEF LoopParts, OuterEnd, InnerEnd
<1>9. ASSUME NEW i \in 1 .. length
      PROVE  ItemOnce(i)'
  <2>1. /\ Occurs(toA, i) \in Nat /\ Occurs(NotForwarded, i) \in Nat /\ Occurs(to1, i) \in Nat
        /\ printed[i] \in Nat /\ ItemOnce(i)
    BY LoopNumbers DEF LoopParts, LoopTypes
  <2>2. Occurs(toA', i) = Occurs(toA, i) + (IF emitted + 1 = i THEN 1 ELSE 0)
    BY <1>3
  <2>3. i > emitted <=> i > emitted' \/ i = emitted + 1
    BY <1>1, <1>2
  <2>4. ~(i > emitted' /\ i = emitted + 1)
    BY <1>1, <1>2
  <2>. QED
    BY <1>1, <1>4, <2>1, <2>2, <2>3, <2>4 DEF ItemOnce
<1>. QED
  BY <1>5, <1>6, <1>7, <1>8, <1>9 DEF LoopParts

(* An item comes round; Stage_0 may end the stream.                         *)
LEMMA CountReturnedStep ==
  ASSUME LoopParts, Loops!CountReturned
  PROVE  LoopParts'
<1>1. /\ loop0 # <<>> /\ Head(loop0) # 0 /\ loop0' = Tail(loop0) /\ returned' = returned + 1
      /\ \/ /\ returned' = length /\ stage0' = "ended" /\ toA' = Append(toA, 0)
         \/ UNCHANGED <<stage0, toA>>
      /\ UNCHANGED <<emitted, onthefly, eosreceived, eosA, stageA, forwarded, stageB, stage1,
                     toB, to1, loopA, printed>>
  BY DEF Loops!CountReturned, Loops!inner, Loops!EOS, Loops!AllReturned
<1>2. /\ toA \in Seq(0 .. length) /\ loop0 \in Seq(0 .. length) /\ 0 \in 0 .. length
  BY FarmAssumption DEF LoopParts, LoopTypes
<1>3. loop0' \in Seq(0 .. length) /\ Items(loop0) = Items(loop0') + 1
  BY <1>1, <1>2, QueueTail
<1>4. /\ toA' \in Seq(0 .. length) /\ Items(toA') = Items(toA)
      /\ \A i \in 1 .. length : Occurs(toA', i) = Occurs(toA, i)
  <2>1. CASE toA' = toA
    BY <1>2, <2>1
  <2>2. CASE toA' = Append(toA, 0)
    <3>1. \A i \in 1 .. length : i # 0
      BY FarmAssumption
    <3>2. Items(toA) \in Nat /\ \A i : Occurs(toA, i) \in Nat
      BY LoopNumbers
    <3>. QED
      BY <1>2, <2>2, <3>1, <3>2, QueueAppend
  <2>. QED
    BY <1>1, <2>1, <2>2
<1>5. NotForwarded' = NotForwarded
  BY <1>1 DEF NotForwarded
<1>6. /\ Items(toA) \in Nat /\ Items(NotForwarded) \in Nat /\ Items(to1) \in Nat
      /\ Items(loop0') \in Nat /\ returned \in Nat
  BY <1>3, LoopNumbers, QueueCounts DEF LoopParts, LoopTypes
<1>7. LoopTypes'
  BY <1>1, <1>3, <1>4, <1>6 DEF LoopParts, LoopTypes
<1>8. Forwarding' /\ InnerLoop'
  BY <1>1 DEF LoopParts, Forwarding, InnerLoop
<1>9. OuterLoop'
  BY <1>1, <1>3, <1>4, <1>5, <1>6 DEF LoopParts, OuterLoop
<1>10. returned # length
  <2>1. returned = length => Items(loop0) = 0
    BY LoopNumbers
  <2>. QED
    BY <1>3, <1>6, <2>1
<1>11. OuterEnd' /\ InnerEnd'
  <2>1. Occurs(toA, 0) \in Nat
    BY LoopNumbers
  <2>. QED
    BY <1>1, <1>10, <2>1 DEF LoopParts, OuterEnd, InnerEnd
<1>12. ASSUME NEW i \in 1 .. length
       PROVE  ItemOnce(i)'
  BY <1>1, <1>4, <1>5 DEF LoopParts, ItemOnce
<1>. QED
  BY <1>7, <1>8, <1>9, <1>11, <1>12 DEF LoopParts

(* Stage_A lets an item into the inner loop.                                *)
LEMMA EnterLoopStep ==
  ASSUME LoopParts, Loops!EnterLoop
  PROVE  LoopParts'
<1>1. /\ toA # <<>> /\ Head(toA) # 0 /\ toA' = Tail(toA) /\ toB' = Append(toB, Head(toA))
      /\ onthefly' = onthefly + 1
      /\ UNCHANGED <<emitted, returned, stage0, eosreceived, eosA, stageA, forwarded, stageB,
                     stage1, to1, loopA, loop0, printed>>
  BY DEF Loops!EnterLoop, Loops!outer, Loops!EOS, Loops!Entered
<1>2. toA \in Seq(0 .. length) /\ toB \in Seq(0 .. length) /\ onthefly \in Nat
  BY DEF LoopParts, LoopTypes
<1>3. /\ Head(toA) \in 0 .. length
      /\ toA' \in Seq(0 .. length) /\ Items(toA) = Items(toA') + 1
      /\ \A i : Occurs(toA, i) = Occurs(toA', i) + (IF Head(toA) = i THEN 1 ELSE 0)
  BY <1>1, <1>2, QueueTail
<1>4. /\ toB' \in Seq(0 .. length) /\ Items(toB') = Items(toB) + 1
      /\ \A i : Occurs(toB', i) = Occurs(toB, i) + (IF Head(toA) = i THEN 1 ELSE 0)
  BY <1>1, <1>2, <1>3, QueueAppend
<1>5. /\ NotForwarded \in Seq(0 .. length) /\ NotForwarded' = Append(NotForwarded, Head(toA))
      /\ forwarded => toB' # <<>> /\ Head(toB') # 0
  BY <1>1, <1>3, NotForwardedAppend DEF LoopParts
<1>6. /\ Items(NotForwarded') = Items(NotForwarded) + 1
      /\ \A i : Occurs(NotForwarded', i)
                  = Occurs(NotForwarded, i) + (IF Head(toA) = i THEN 1 ELSE 0)
  BY <1>1, <1>3, <1>5, QueueAppend
<1>7. /\ Items(toA') \in Nat /\ Items(NotForwarded) \in Nat /\ Items(to1) \in Nat
      /\ Items(loop0) \in Nat /\ returned \in Nat /\ Items(toB) \in Nat /\ Items(loopA) \in Nat
      /\ \A i : Occurs(toA', i) \in Nat /\ Occurs(toB, i) \in Nat
                /\ Occurs(NotForwarded, i) \in Nat /\ Occurs(to1, i) \in Nat
  BY <1>3, LoopNumbers, QueueCounts DEF LoopParts, LoopTypes
<1>8. LoopTypes'
  BY <1>1, <1>2, <1>3, <1>4 DEF LoopParts, LoopTypes
<1>9. Forwarding' /\ InnerLoop'
  <2>1. Forwarding'
    BY <1>1, <1>5 DEF LoopParts, Forwarding
  <2>2. InnerLoop'
    BY <1>1, <1>4, <1>7 DEF LoopParts, InnerLoop
  <2>. QED
    BY <2>1, <2>2
<1>10. OuterLoop'
  BY <1>1, <1>3, <1>6, <1>7 DEF LoopParts, OuterLoop
<1>11. returned # length
  <2>1. returned = length => Items(toA) = 0
    BY LoopNumbers
  <2>. QED
    BY <1>3, <1>7, <2>1
<1>12. OuterEnd' /\ InnerEnd'
  <2>1. Occurs(toA, 0) = Occurs(toA', 0) /\ Occurs(toB', 0) = Occurs(toB, 0)
    BY <1>1, <1>3, <1>4, <1>7
  <2>. QED
    BY <1>1, <1>11, <2>1 DEF LoopParts, OuterEnd, InnerEnd
<1>13. ASSUME NEW i \in 1 .. length
       PROVE  ItemOnce(i)'
  <2>1. printed[i] \in Nat /\ ItemOnce(i)
    BY DEF LoopParts, LoopTypes
  <2>2. /\ Occurs(toA, i) = Occurs(toA', i) + (IF Head(toA) = i THEN 1 ELSE 0)
        /\ Occurs(NotForwarded', i) = Occurs(NotForwarded, i) + (IF Head(toA) = i THEN 1 ELSE 0)
    BY <1>3, <1>6
  <2>3. /\ Occurs(toA', i) \in Nat /\ Occurs(NotForwarded, i) \in Nat
        /\ Occurs(to1, i) \in Nat
    BY <1>7
  <2>4. ItemOnce(i)' <=> printed[i] + Occurs(to1, i) + Occurs(NotForwarded', i)
                           + Occurs(toA', i) + (IF i > emitted THEN 1 ELSE 0) = 1
    BY <1>1 DEF ItemOnce
  <2>. QED
    BY <2>1, <2>2, <2>3, <2>4 DEF ItemOnce
<1>. QED
  BY <1>8, <1>9, <1>10, <1>12, <1>13 DEF LoopParts

(* An item leaves the inner loop, and may be the last one.                  *)
LEMMA LeaveLoopStep ==
  ASSUME LoopParts, Loops!LeaveLoop
  PROVE  LoopParts'
<1>1. /\ loopA # <<>> /\ Head(loopA) # 0 /\ loopA' = Tail(loopA) /\ onthefly' = onthefly - 1
      /\ \/ onthefly' <= 0 /\ eosreceived /\ toB' = Append(toB, 0)
         \/ UNCHANGED toB
      /\ UNCHANGED <<emitted, returned, stage0, eosreceived, eosA, forwarded, stageB,
                     stage1, toA, to1, loop0, printed>>
  BY DEF Loops!LeaveLoop, Loops!outer, Loops!EOS, Loops!LoopDone
<1>2. /\ loopA \in Seq(0 .. length) /\ toB \in Seq(0 .. length) /\ onthefly \in Nat
      /\ 0 \in 0 .. length
  BY FarmAssumption DEF LoopParts, LoopTypes
<1>3. /\ loopA' \in Seq(0 .. length) /\ Items(loopA) = Items(loopA') + 1
      /\ Occurs(loopA, 0) = Occurs(loopA', 0) + 0
  <2>1. /\ loopA' \in Seq(0 .. length) /\ Items(loopA) = Items(loopA') + 1
        /\ Occurs(loopA, 0) = Occurs(loopA', 0) + (IF Head(loopA) = 0 THEN 1 ELSE 0)
    BY <1>1, <1>2, QueueTail
  <2>. QED
    BY <1>1, <2>1
<1>4. /\ Items(loopA') \in Nat /\ Items(toB) \in Nat /\ Items(NotForwarded) \in Nat
      /\ \A i : Occurs(NotForwarded, i) \in Nat /\ Occurs(toB, i) \in Nat
      /\ Occurs(loopA', 0) \in Nat
  BY <1>3, LoopNumbers, QueueCounts
<1>5. onthefly' = Items(toB) + Items(loopA') /\ onthefly' \in Nat
  BY <1>1, <1>3, <1>4 DEF LoopParts, InnerLoop
<1>6. onthefly # 0
  BY <1>1, <1>2, <1>5
<1>7. /\ toB' \in Seq(0 .. length) /\ Items(toB') = Items(toB)
      /\ Items(NotForwarded') = Items(NotForwarded)
      /\ \A i \in 1 .. length : Occurs(NotForwarded', i) = Occurs(NotForwarded, i)
      /\ forwarded => toB' # <<>> /\ Head(toB') # 0
  <2>1. CASE toB' = toB
    BY <1>1, <1>2, <2>1 DEF NotForwarded, LoopParts, Forwarding
  <2>2. CASE toB' = Append(toB, 0)
    <3>1. /\ NotForwarded \in Seq(0 .. length) /\ NotForwarded' = Append(NotForwarded, 0)
          /\ forwarded => toB' # <<>> /\ Head(toB') # 0
      BY <1>1, <1>2, <2>2, NotForwardedAppend DEF LoopParts
    <3>2. toB' \in Seq(0 .. length) /\ Items(toB') = Items(toB)
      BY <1>2, <1>4, <2>2, QueueAppend
    <3>3. Items(NotForwarded') = Items(NotForwarded)
      BY <1>2, <1>4, <3>1, QueueAppend
    <3>4. \A i \in 1 .. length : i # 0
      BY FarmAssumption
    <3>5. ASSUME NEW i \in 1 .. length
          PROVE  Occurs(NotForwarded', i) = Occurs(NotForwarded, i)
      <4>1. Occurs(NotForwarded', i) = Occurs(NotForwarded, i) + (IF 0 = i THEN 1 ELSE 0)
        BY <1>2, <3>1, QueueAppend
      <4>. QED
        BY <1>4, <3>4, <4>1
    <3>. QED
      BY <3>1, <3>2, <3>3, <3>5
  <2>. QED
    BY <1>1, <2>1, <2>2
<1>8. LoopTypes'
  BY <1>1, <1>3, <1>5, <1>7 DEF LoopParts, LoopTypes
<1>9. Forwarding' /\ InnerLoop'
  BY <1>1, <1>5, <1>7 DEF LoopParts, Forwarding, InnerLoop
<1>10. OuterLoop' /\ OuterEnd'
  BY <1>1, <1>7 DEF LoopParts, OuterLoop, OuterEnd
<1>11. InnerEnd'
  <2>1. ~(Occurs(toB, 0) > 0 \/ stageB = "ended")
    BY <1>6 DEF LoopParts, InnerEnd
  <2>2. CASE toB' = toB
    BY <1>1, <1>3, <1>4, <2>1, <2>2 DEF LoopParts, InnerEnd
  <2>3. CASE onthefly' <= 0 /\ eosreceived
    <3>1. onthefly' = 0 /\ returned = length
      BY <1>5, <2>3 DEF LoopParts, OuterEnd
    <3>2. Occurs(loopA', 0) > 0 => stageB = "ended"
      BY <1>3, <1>4 DEF LoopParts, InnerEnd
    <3>. QED
      BY <1>1, <3>1, <3>2 DEF InnerEnd
  <2>. QED
    BY <1>1, <2>2, <2>3
<1>12. ASSUME NEW i \in 1 .. length
       PROVE  ItemOnce(i)'
  BY <1>1, <1>7 DEF LoopParts, ItemOnce
<1>. QED
  BY <1>8, <1>9, <1>10, <1>11, <1>12 DEF LoopParts

(* Stage_A hears of the end of one of its inputs, and may pass it on.       *)
LEMMA EosNotifyStep ==
  ASSUME LoopParts, NEW channel, Loops!eosnotify(channel),
         returned = length,
         \/ toA # <<>> /\ Head(toA) = 0 /\ toA' = Tail(toA) /\ UNCHANGED loopA
         \/ loopA # <<>> /\ Head(loopA) = 0 /\ loopA' = Tail(loopA) /\ UNCHANGED toA,
         UNCHANGED <<emitted, returned, stage0, forwarded, stageB, stage1, to1, loop0, printed>>
  PROVE  LoopParts'
<1>1. /\ eosreceived' = TRUE /\ UNCHANGED onthefly
      /\ \/ onthefly = 0 /\ toB' = Append(toB, 0)
         \/ UNCHANGED toB
  BY DEF Loops!eosnotify, Loops!EOS, Loops!LoopEmpty
<1>2. /\ toA \in Seq(0 .. length) /\ loopA \in Seq(0 .. length) /\ toB \in Seq(0 .. length)
      /\ onthefly \in Nat /\ 0 \in 0 .. length
  BY FarmAssumption DEF LoopParts, LoopTypes
<1>3. \A i \in 1 .. length : i # 0
  BY FarmAssumption
<1>4. /\ \A q \in {toA, toB, NotForwarded, to1, loopA, loop0} :
           Items(q) \in Nat /\ \A i : Occurs(q, i) \in Nat
      /\ NotForwarded \in Seq(0 .. length)
  BY LoopNumbers
<1>5. /\ toA' \in Seq(0 .. length) /\ Items(toA') = Items(toA)
      /\ \A i \in 1 .. length : Occurs(toA', i) = Occurs(toA, i)
      /\ loopA' \in Seq(0 .. length) /\ Items(loopA') = Items(loopA)
      /\ Occurs(loopA', 0) > 0 => Occurs(loopA, 0) > 0
  <2>1. ASSUME NEW q \in {toA, loopA}, q # <<>>, Head(q) = 0
        PROVE  /\ Tail(q) \in Seq(0 .. length) /\ Items(Tail(q)) = Items(q)
               /\ \A i \in 1 .. length : Occurs(Tail(q), i) = Occurs(q, i)
               /\ Occurs(Tail(q), 0) > 0 => Occurs(q, 0) > 0
    <3>1. q \in Seq(0 .. length)
      BY <1>2
    <3>2. /\ Tail(q) \in Seq(0 .. length) /\ Items(q) = Items(Tail(q)) + 0
          /\ \A i : Occurs(q, i) = Occurs(Tail(q), i) + (IF 0 = i THEN 1 ELSE 0)
      BY <2>1, <3>1, QueueTail
    <3>3. Items(Tail(q)) \in Nat /\ \A i : Occurs(Tail(q), i) \in Nat
      BY <3>2, QueueCounts
    <3>. QED
      BY <1>3, <3>2, <3>3
  <2>. QED
    BY <1>2, <2>1
<1>6. /\ toB' \in Seq(0 .. length) /\ Items(toB') = Items(toB)
      /\ Items(NotForwarded') = Items(NotForwarded)
      /\ \A i \in 1 .. length : Occurs(NotForwarded', i) = Occurs(NotForwarded, i)
      /\ forwarded => toB' # <<>> /\ Head(toB') # 0
  <2>1. CASE toB' = toB
    BY <1>1, <1>2, <2>1 DEF NotForwarded, LoopParts, Forwarding
  <2>2. CASE toB' = Append(toB, 0)
    <3>1. /\ NotForwarded' = Append(NotForwarded, 0)
          /\ forwarded => toB' # <<>> /\ Head(toB') # 0
      BY <1>1, <1>2, <2>2, NotForwardedAppend DEF LoopParts
    <3>2. toB' \in Seq(0 .. length) /\ Items(toB') = Items(toB)
      BY <1>2, <1>4, <2>2, QueueAppend
    <3>3. Items(NotForwarded') = Items(NotForwarded)
      BY <1>2, <1>4, <3>1, QueueAppend
    <3>4. ASSUME NEW i \in 1 .. length
          PROVE  Occurs(NotForwarded', i) = Occurs(NotForwarded, i)
      <4>1. Occurs(NotForwarded', i) = Occurs(NotForwarded, i) + (IF 0 = i THEN 1 ELSE 0)
        BY <1>2, <1>4, <3>1, QueueAppend
      <4>. QED
        <5>1. i # 0 /\ Occurs(NotForwarded, i) \in Nat
          BY <1>3, <1>4
        <5>. QED
          BY <4>1, <5>1
    <3>. QED
      BY <3>1, <3>2, <3>3, <3>4
  <2>. QED
    BY <1>1, <2>1, <2>2
<1>7. LoopTypes'
  BY <1>1, <1>5, <1>6 DEF LoopParts, LoopTypes
<1>8. Forwarding' /\ InnerLoop' /\ OuterLoop' /\ OuterEnd'
  BY <1>1, <1>5, <1>6 DEF LoopParts, Forwarding, InnerLoop, OuterLoop, OuterEnd
<1>9. InnerEnd'
  BY <1>1, <1>5 DEF LoopParts, InnerEnd
<1>10. ASSUME NEW i \in 1 .. length
       PROVE  ItemOnce(i)'
  BY <1>5, <1>6 DEF LoopParts, ItemOnce
<1>. QED
  BY <1>7, <1>8, <1>9, <1>10 DEF LoopParts

(* EOS from the input of the loop: the loop notes it.                       *)
LEMMA InputEndsStep ==
  ASSUME LoopParts, Loops!InputEnds
  PROVE  LoopParts'
<1>1. /\ toA # <<>> /\ Head(toA) = 0 /\ toA' = Tail(toA) /\ Loops!eosnotify("in")
      /\ UNCHANGED <<emitted, returned, stage0, forwarded, stageB, stage1, to1, loopA, loop0,
                     printed>>
  BY DEF Loops!InputEnds, Loops!outer, Loops!EOS
<1>2. toA \in Seq(0 .. length)
  BY DEF LoopParts, LoopTypes
<1>3. Occurs(toA, 0) = Occurs(Tail(toA), 0) + 1 /\ Tail(toA) \in Seq(0 .. length)
  BY <1>1, <1>2, QueueTail
<1>4. Occurs(Tail(toA), 0) \in Nat
  BY <1>3, QueueCounts
<1>5. returned = length
  BY <1>3, <1>4 DEF LoopParts, OuterEnd
<1>. QED
  BY <1>1, <1>5, EosNotifyStep

(* EOS from the feedback channel: the inner loop is empty.                  *)
LEMMA LoopEndsStep ==
  ASSUME LoopParts, Loops!LoopEnds
  PROVE  LoopParts'
<1>1. /\ loopA # <<>> /\ Head(loopA) = 0 /\ loopA' = Tail(loopA) /\ Loops!eosnotify("loop")
      /\ UNCHANGED <<emitted, returned, stage0, forwarded, stageB, stage1, toA, to1, loop0,
                     printed>>
  BY DEF Loops!LoopEnds, Loops!outer, Loops!EOS
<1>2. loopA \in Seq(0 .. length)
  BY DEF LoopParts, LoopTypes
<1>3. Occurs(loopA, 0) = Occurs(Tail(loopA), 0) + 1 /\ Tail(loopA) \in Seq(0 .. length)
  BY <1>1, <1>2, QueueTail
<1>4. Occurs(Tail(loopA), 0) \in Nat
  BY <1>3, QueueCounts
<1>5. returned = length
  BY <1>3, <1>4 DEF LoopParts, InnerEnd
<1>. QED
  BY <1>1, <1>5, EosNotifyStep

(* Stage_B sends an item to Stage_1.                                        *)
LEMMA SendForwardStep ==
  ASSUME LoopParts, Loops!SendForward
  PROVE  LoopParts'
<1>1. /\ stageB = "running" /\ ~forwarded /\ toB # <<>> /\ Head(toB) # 0
      /\ to1' = Append(to1, Head(toB)) /\ forwarded' = TRUE
      /\ UNCHANGED <<emitted, returned, stage0, onthefly, eosreceived, eosA, stageA, stageB,
                     stage1, toA, toB, loopA, loop0, printed>>
  BY DEF Loops!SendForward, Loops!outer, Loops!inner, Loops!EOS
<1>2. toB \in Seq(0 .. length) /\ to1 \in Seq(0 .. length)
  BY DEF LoopParts, LoopTypes
<1>3. NotForwarded = toB /\ NotForwarded' = Tail(toB)
  BY <1>1 DEF NotForwarded
<1>4. /\ Head(toB) \in 0 .. length /\ Tail(toB) \in Seq(0 .. length)
      /\ Items(toB) = Items(Tail(toB)) + 1
      /\ \A i : Occurs(toB, i) = Occurs(Tail(toB), i) + (IF Head(toB) = i THEN 1 ELSE 0)
  BY <1>1, <1>2, QueueTail
<1>5. /\ to1' \in Seq(0 .. length) /\ Items(to1') = Items(to1) + 1
      /\ \A i : Occurs(to1', i) = Occurs(to1, i) + (IF Head(toB) = i THEN 1 ELSE 0)
  BY <1>1, <1>2, <1>4, QueueAppend
<1>6. /\ Items(Tail(toB)) \in Nat /\ \A i : Occurs(Tail(toB), i) \in Nat
      /\ Items(toA) \in Nat /\ Items(to1) \in Nat /\ Items(loop0) \in Nat /\ returned \in Nat
      /\ \A i : Occurs(to1, i) \in Nat /\ Occurs(toA, i) \in Nat
  BY <1>4, LoopNumbers, QueueCounts DEF LoopParts, LoopTypes
<1>7. LoopTypes' /\ Forwarding' /\ InnerLoop' /\ OuterEnd' /\ InnerEnd'
  BY <1>1, <1>5 DEF LoopParts, LoopTypes, Forwarding, InnerLoop, OuterEnd, InnerEnd
<1>8. OuterLoop'
  BY <1>1, <1>3, <1>4, <1>5, <1>6 DEF LoopParts, OuterLoop
<1>9. ASSUME NEW i \in 1 .. length
      PROVE  ItemOnce(i)'
  <2>1. printed[i] \in Nat /\ ItemOnce(i)
    BY DEF LoopParts, LoopTypes
  <2>2. /\ Occurs(toB, i) = Occurs(Tail(toB), i) + (IF Head(toB) = i THEN 1 ELSE 0)
        /\ Occurs(to1', i) = Occurs(to1, i) + (IF Head(toB) = i THEN 1 ELSE 0)
    BY <1>4, <1>5
  <2>3. /\ Occurs(Tail(toB), i) \in Nat /\ Occurs(to1, i) \in Nat /\ Occurs(toA, i) \in Nat
    BY <1>6
  <2>4. ItemOnce(i)' <=> printed[i] + Occurs(to1', i) + Occurs(Tail(toB), i)
                           + Occurs(toA, i) + (IF i > emitted THEN 1 ELSE 0) = 1
    BY <1>1, <1>3 DEF ItemOnce
  <2>5. ItemOnce(i) <=> printed[i] + Occurs(to1, i) + Occurs(toB, i)
                          + Occurs(toA, i) + (IF i > emitted THEN 1 ELSE 0) = 1
    BY <1>3 DEF ItemOnce
  <2>. QED
    BY <2>1, <2>2, <2>3, <2>4, <2>5
<1>. QED
  BY <1>7, <1>8, <1>9 DEF LoopParts

(* Then back to Stage_A.                                                    *)
LEMMA SendBackwardStep ==
  ASSUME LoopParts, Loops!SendBackward
  PROVE  LoopParts'
<1>1. /\ forwarded /\ loopA' = Append(loopA, Head(toB)) /\ toB' = Tail(toB)
      /\ forwarded' = FALSE
      /\ UNCHANGED <<emitted, returned, stage0, onthefly, eosreceived, eosA, stageA, stageB,
                     stage1, toA, to1, loop0, printed>>
  BY DEF Loops!SendBackward, Loops!Backward, Loops!outer, Loops!inner
<1>2. /\ toB \in Seq(0 .. length) /\ loopA \in Seq(0 .. length)
      /\ toB # <<>> /\ Head(toB) # 0 /\ stageB = "running"
  BY <1>1 DEF LoopParts, LoopTypes, Forwarding
<1>3. NotForwarded' = NotForwarded
  BY <1>1 DEF NotForwarded
<1>4. /\ Head(toB) \in 0 .. length /\ toB' \in Seq(0 .. length)
      /\ Items(toB) = Items(toB') + 1
      /\ Occurs(toB, 0) = Occurs(toB', 0) + (IF Head(toB) = 0 THEN 1 ELSE 0)
  BY <1>1, <1>2, QueueTail
<1>5. /\ loopA' \in Seq(0 .. length) /\ Items(loopA') = Items(loopA) + 1
      /\ Occurs(loopA', 0) = Occurs(loopA, 0) + (IF Head(toB) = 0 THEN 1 ELSE 0)
  BY <1>1, <1>2, <1>4, QueueAppend
<1>6. /\ Items(toB') \in Nat /\ Items(loopA) \in Nat
      /\ Occurs(toB', 0) \in Nat /\ Occurs(loopA, 0) \in Nat
  BY <1>4, LoopNumbers, QueueCounts
<1>7. LoopTypes' /\ Forwarding'
  BY <1>1, <1>4, <1>5 DEF LoopParts, LoopTypes, Forwarding
<1>8. InnerLoop'
  BY <1>1, <1>4, <1>5, <1>6 DEF LoopParts, InnerLoop
<1>9. OuterLoop' /\ OuterEnd' /\ \A i \in 1 .. length : ItemOnce(i)'
  BY <1>1, <1>3 DEF LoopParts, OuterLoop, OuterEnd, ItemOnce
<1>10. InnerEnd'
  <2>1. Occurs(toB, 0) = Occurs(toB', 0) /\ Occurs(loopA', 0) = Occurs(loopA, 0)
    BY <1>2, <1>4, <1>5, <1>6
  <2>. QED
    BY <1>1, <2>1 DEF LoopParts, InnerEnd
<1>. QED
  BY <1>7, <1>8, <1>9, <1>10 DEF LoopParts

(* Stage_B passes the end of the stream on.                                 *)
LEMMA StageBEndsStep ==
  ASSUME LoopParts, Loops!StageBEnds
  PROVE  LoopParts'
<1>1. /\ ~forwarded /\ toB # <<>> /\ Head(toB) = 0 /\ toB' = Tail(toB)
      /\ to1' = Append(to1, 0) /\ loopA' = Append(loopA, 0) /\ stageB' = "ended"
      /\ UNCHANGED <<emitted, returned, stage0, onthefly, eosreceived, eosA, stageA, forwarded,
                     stage1, toA, loop0, printed>>
  BY DEF Loops!StageBEnds, Loops!outer, Loops!inner, Loops!EOS
<1>2. /\ toB \in Seq(0 .. length) /\ loopA \in Seq(0 .. length) /\ to1 \in Seq(0 .. length)
      /\ 0 \in 0 .. length /\ \A i \in 1 .. length : i # 0
  BY FarmAssumption DEF LoopParts, LoopTypes
<1>3. NotForwarded = toB /\ NotForwarded' = toB'
  BY <1>1 DEF NotForwarded
<1>4. /\ toB' \in Seq(0 .. length) /\ Items(toB) = Items(toB') + 0
      /\ \A i : Occurs(toB, i) = Occurs(toB', i) + (IF 0 = i THEN 1 ELSE 0)
  BY <1>1, <1>2, QueueTail
<1>5. /\ loopA' \in Seq(0 .. length) /\ Items(loopA') = Items(loopA) + 0
      /\ to1' \in Seq(0 .. length) /\ Items(to1') = Items(to1) + 0
      /\ \A i : Occurs(to1', i) = Occurs(to1, i) + (IF 0 = i THEN 1 ELSE 0)
  BY <1>1, <1>2, QueueAppend
<1>6. /\ Items(toB') \in Nat /\ Items(loopA) \in Nat /\ Items(to1) \in Nat
      /\ \A i : Occurs(toB', i) \in Nat /\ Occurs(to1, i) \in Nat
  BY <1>4, LoopNumbers, QueueCounts
<1>7. /\ Items(toB') = Items(toB) /\ Items(loopA') = Items(loopA) /\ Items(to1') = Items(to1)
      /\ \A i \in 1 .. length : Occurs(toB', i) = Occurs(toB, i) /\ Occurs(to1', i) = Occurs(to1, i)
      /\ Occurs(toB, 0) > 0
  <2>1. ASSUME NEW i \in 1 .. length
        PROVE  Occurs(toB', i) = Occurs(toB, i) /\ Occurs(to1', i) = Occurs(to1, i)
    <3>1. i # 0 /\ Occurs(toB', i) \in Nat /\ Occurs(to1, i) \in Nat
      BY <1>2, <1>6
    <3>. QED
      BY <1>4, <1>5, <3>1
  <2>. QED
    BY <1>4, <1>5, <1>6, <2>1
<1>8. LoopTypes' /\ Forwarding'
  BY <1>1, <1>4, <1>5 DEF LoopParts, LoopTypes, Forwarding
<1>9. InnerLoop' /\ OuterLoop' /\ OuterEnd'
  BY <1>1, <1>3, <1>7 DEF LoopParts, InnerLoop, OuterLoop, OuterEnd
<1>10. InnerEnd'
  BY <1>1, <1>7 DEF LoopParts, InnerEnd
<1>11. \A i \in 1 .. length : ItemOnce(i)'
  BY <1>1, <1>3, <1>7 DEF LoopParts, ItemOnce
<1>. QED
  BY <1>8, <1>9, <1>10, <1>11 DEF LoopParts

(* Stage_1 prints an item and sends it round.                               *)
LEMMA EchoStep ==
  ASSUME LoopParts, Loops!Echo
  PROVE  /\ LoopParts'
         /\ \/ UNCHANGED printed
            \/ /\ stage1' # "ended"
               /\ \E i \in 1 .. length : printed[i] = 0 /\ printed' = [printed EXCEPT ![i] = 1]
<1>1. /\ to1 # <<>> /\ to1' = Tail(to1) /\ loop0' = Append(loop0, Head(to1))
      /\ \/ Head(to1) = 0 /\ UNCHANGED printed
         \/ /\ Head(to1) # 0 /\ printed' = [printed EXCEPT ![Head(to1)] = @ + 1]
            /\ stage1 = "running" /\ UNCHANGED stage1
      /\ UNCHANGED <<emitted, returned, stage0, onthefly, eosreceived, eosA, stageA, forwarded,
                     stageB, toA, toB, loopA>>
  BY DEF Loops!Echo, Loops!outer, Loops!inner, Loops!EOS
<1>2. /\ to1 \in Seq(0 .. length) /\ loop0 \in Seq(0 .. length)
      /\ printed \in [1 .. length -> Nat]
  BY DEF LoopParts, LoopTypes
<1>3. /\ Head(to1) \in 0 .. length /\ to1' \in Seq(0 .. length)
      /\ Items(to1) = Items(to1') + (IF Head(to1) = 0 THEN 0 ELSE 1)
      /\ \A i : Occurs(to1, i) = Occurs(to1', i) + (IF Head(to1) = i THEN 1 ELSE 0)
  BY <1>1, <1>2, QueueTail
<1>4. /\ loop0' \in Seq(0 .. length)
      /\ Items(loop0') = Items(loop0) + (IF Head(to1) = 0 THEN 0 ELSE 1)
  BY <1>1, <1>2, <1>3, QueueAppend
<1>5. /\ Items(to1') \in Nat /\ Items(loop0) \in Nat /\ Items(toA) \in Nat
      /\ Items(NotForwarded) \in Nat /\ returned \in Nat
      /\ \A i : /\ Occurs(to1', i) \in Nat /\ Occurs(NotForwarded, i) \in Nat
                /\ Occurs(toA, i) \in Nat
  BY <1>3, LoopNumbers, QueueCounts DEF LoopParts, LoopTypes
<1>6. NotForwarded' = NotForwarded
  BY <1>1 DEF NotForwarded
<1>7. Head(to1) # 0 => Head(to1) \in 1 .. length
  BY <1>3, FarmAssumption
<1>8. /\ printed' \in [1 .. length -> Nat]
      /\ \A i \in 1 .. length : printed'[i] = printed[i] + (IF Head(to1) = i THEN 1 ELSE 0)
  <2>1. CASE Head(to1) = 0
    <3>1. \A i \in 1 .. length : Head(to1) # i
      BY <2>1, FarmAssumption
    <3>2. printed' = printed
      BY <1>1, <2>1
    <3>. QED
      BY <1>2, <3>1, <3>2
  <2>2. CASE Head(to1) # 0
    <3>1. printed' = [printed EXCEPT ![Head(to1)] = @ + 1]
      BY <1>1, <2>2
    <3>. QED
      BY <1>2, <1>7, <2>2, <3>1
  <2>. QED
    BY <2>1, <2>2
<1>9. LoopTypes' /\ Forwarding' /\ InnerLoop' /\ OuterEnd' /\ InnerEnd'
  BY <1>1, <1>3, <1>4, <1>8
     DEF LoopParts, LoopTypes, Forwarding, InnerLoop, OuterEnd, InnerEnd
<1>10. OuterLoop'
  BY <1>1, <1>3, <1>4, <1>5, <1>6 DEF LoopParts, OuterLoop
<1>11. ASSUME NEW i \in 1 .. length
       PROVE  ItemOnce(i)' /\ (Head(to1) = i => printed[i] = 0)
  <2>1. printed[i] \in Nat /\ ItemOnce(i)
    BY DEF LoopParts, LoopTypes
  <2>2. /\ Occurs(to1, i) = Occurs(to1', i) + (IF Head(to1) = i THEN 1 ELSE 0)
        /\ printed'[i] = printed[i] + (IF Head(to1) = i THEN 1 ELSE 0)
    BY <1>3, <1>8
  <2>3. /\ Occurs(to1', i) \in Nat /\ Occurs(NotForwarded, i) \in Nat
        /\ Occurs(toA, i) \in Nat
    BY <1>5
  <2>4. ItemOnce(i)' <=> printed'[i] + Occurs(to1', i) + Occurs(NotForwarded, i)
                           + Occurs(toA, i) + (IF i > emitted THEN 1 ELSE 0) = 1
    BY <1>1, <1>6 DEF ItemOnce
  <2>5. ItemOnce(i) <=> printed[i] + Occurs(to1, i) + Occurs(NotForwarded, i)
                          + Occurs(toA, i) + (IF i > emitted THEN 1 ELSE 0) = 1
    BY DEF ItemOnce
  <2>. QED
    BY <2>1, <2>2, <2>3, <2>4, <2>5
<1>12. CASE Head(to1) # 0
  <2>1. printed[Head(to1)] = 0 /\ printed' = [printed EXCEPT ![Head(to1)] = 1]
    BY <1>1, <1>2, <1>7, <1>11, <1>12
  <2>. QED
    BY <1>1, <1>7, <1>9, <1>10, <1>11, <1>12, <2>1 DEF LoopParts
<1>13. CASE Head(to1) = 0
  BY <1>1, <1>9, <1>10, <1>11, <1>13 DEF LoopParts
<1>. QED
  BY <1>12, <1>13

(* The model's count of a queue is the number of items in it.               *)
LEMMA LoopsCount ==
  ASSUME NEW q \in Seq(0 .. length)
  PROVE  Loops!Count(q) = Items(q)
<1>1. \A S : Loops!Cardinality(S) = Cardinality(S)
  BY DEF Loops!Cardinality, Cardinality
<1>2. \A k \in DOMAIN q : q[k] \in 0 .. length
  BY SeqElement
<1>3. {k \in DOMAIN q : q[k] # 0} = {k \in DOMAIN q : q[k] \in 1 .. length}
  BY <1>2, FarmAssumption
<1>. QED
  BY <1>1, <1>3 DEF Loops!Count, Loops!EOS, Items, Among

(* The loops start in their invariant.                                      *)
LEMMA LoopStart ==
  ASSUME Loops!Init
  PROVE  LoopParts
<1>1. /\ emitted = 0 /\ returned = 0 /\ stage0 = "running" /\ onthefly = 0
      /\ eosreceived = FALSE /\ forwarded = FALSE /\ stageB = "running"
      /\ toA = <<>> /\ toB = <<>> /\ to1 = <<>> /\ loopA = <<>> /\ loop0 = <<>>
      /\ printed = [i \in 1 .. length |-> 0]
  BY DEF Loops!Init, Loops!Item
<1>2. <<>> \in Seq(0 .. length) /\ NotForwarded = <<>>
  BY <1>1 DEF NotForwarded
<1>3. Items(<<>>) = 0 /\ \A i : Occurs(<<>>, i) = 0
  BY <1>2, QueueCounts
<1>4. LoopTypes
  <2>1. 0 \in 0 .. length /\ 0 \in Nat /\ [i \in 1 .. length |-> 0] \in [1 .. length -> Nat]
    BY FarmAssumption
  <2>. QED
    BY <1>1, <1>2, <2>1 DEF LoopTypes
<1>5. Forwarding /\ OuterLoop /\ InnerLoop /\ OuterEnd /\ InnerEnd
  BY <1>1, <1>2, <1>3 DEF Forwarding, OuterLoop, InnerLoop, OuterEnd, InnerEnd
<1>6. \A i \in 1 .. length : ItemOnce(i)
  <2>. SUFFICES ASSUME NEW i \in 1 .. length PROVE ItemOnce(i)
    OBVIOUS
  <2>1. i > 0 /\ printed[i] = 0
    BY <1>1, FarmAssumption
  <2>. QED
    BY <1>1, <1>2, <1>3, <2>1 DEF ItemOnce
<1>. QED
  BY <1>4, <1>5, <1>6 DEF LoopParts

(* When every item came round, every item was printed once.                 *)
LEMMA PrintedAtTheEnd ==
  LoopParts /\ returned = length => \A i \in 1 .. length : printed[i] = 1
BY LoopNumbers

(* The same in the next state.                                              *)
LEMMA PrintedAtTheEndNext ==
  (LoopParts /\ returned = length => \A i \in 1 .. length : printed[i] = 1)'
BY PrintedAtTheEnd, PTL

(* Every step keeps the invariant, prints at most one item, not printed     *)
(* before, and ends the stages only behind the last one.                    *)
LEMMA LoopStep ==
  ASSUME LoopParts, Loops!Next
  PROVE  /\ LoopParts'
         /\ \/ printed' = printed /\ Loops!Over' = Loops!Over
            \/ /\ ~Loops!Over /\ ~Loops!Over'
               /\ \E i \in 1 .. length : printed[i] = 0 /\ printed' = [printed EXCEPT ![i] = 1]
            \/ /\ printed' = printed /\ Loops!Over'
               /\ \A i \in 1 .. length : printed[i] = 1
<1>1. /\ LoopParts'
      /\ \/ UNCHANGED printed
         \/ /\ stage1 = "running" /\ stage1' # "ended"
            /\ \E i \in 1 .. length : printed[i] = 0 /\ printed' = [printed EXCEPT ![i] = 1]
  <2>1. CASE Loops!Generate
    BY <2>1, GenerateStep DEF Loops!Generate
  <2>2. CASE Loops!CountReturned
    BY <2>2, CountReturnedStep DEF Loops!CountReturned
  <2>3. CASE Loops!EnterLoop
    BY <2>3, EnterLoopStep DEF Loops!EnterLoop
  <2>4. CASE Loops!LeaveLoop
    BY <2>4, LeaveLoopStep DEF Loops!LeaveLoop
  <2>5. CASE Loops!InputEnds
    BY <2>5, InputEndsStep DEF Loops!InputEnds
  <2>6. CASE Loops!LoopEnds
    BY <2>6, LoopEndsStep DEF Loops!LoopEnds
  <2>7. CASE Loops!SendForward
    BY <2>7, SendForwardStep DEF Loops!SendForward
  <2>8. CASE Loops!SendBackward
    BY <2>8, SendBackwardStep DEF Loops!SendBackward
  <2>9. CASE Loops!StageBEnds
    BY <2>9, StageBEndsStep DEF Loops!StageBEnds
  <2>10. CASE Loops!Echo
    BY <2>10, EchoStep DEF Loops!Echo
  <2>11. CASE Loops!Ended
    <3>1. UNCHANGED <<emitted, returned, stage0, onthefly, eosreceived, eosA, stageA, forwarded,
                      stageB, stage1, toA, toB, to1, loopA, loop0, printed>>
      BY <2>11 DEF Loops!Ended, Loops!vars, Loops!outer, Loops!inner
    <3>. QED
      BY <3>1 DEF LoopParts, LoopTypes, Forwarding, OuterLoop, InnerLoop, OuterEnd, InnerEnd,
                  ItemOnce, NotForwarded
  <2>. QED
    BY <2>1, <2>2, <2>3, <2>4, <2>5, <2>6, <2>7, <2>8, <2>9, <2>10, <2>11
       DEF Loops!Next, Loops!Stage0, Loops!StageA, Loops!StageB
<1>2. Loops!Over => Loops!Over'
  BY DEF Loops!Next, Loops!Stage0, Loops!StageA, Loops!StageB, Loops!Over, Loops!Generate,
         Loops!CountReturned, Loops!EnterLoop, Loops!LeaveLoop, Loops!InputEnds,
         Loops!LoopEnds, Loops!SendForward, Loops!SendBackward, Loops!StageBEnds, Loops!Echo,
         Loops!Ended, Loops!vars, Loops!outer, Loops!inner
<1>3. Loops!Over' => \A i \in 1 .. length : printed'[i] = 1
  <2>. SUFFICES ASSUME Loops!Over' PROVE \A i \in 1 .. length : printed'[i] = 1
    OBVIOUS
  <2>1. (stage0 = "ended")'
    BY DEF Loops!Over
  <2>2. (returned = length)'
    BY <1>1, <2>1 DEF LoopParts, OuterEnd
  <2>. QED
    BY <1>1, <2>2, PrintedAtTheEndNext
<1>4. Loops!Over \in BOOLEAN /\ Loops!Over' \in BOOLEAN
  BY DEF Loops!Over
<1>5. stage1 = "running" => ~Loops!Over
  BY DEF Loops!Over
<1>6. stage1' # "ended" => ~Loops!Over'
  BY DEF Loops!Over
<1>. QED
  BY <1>1, <1>2, <1>3, <1>4, <1>5, <1>6

(* What the invariant of the loops says: the counter is right, and EOS is   *)
(* behind the last item.                                                    *)
LEMMA LoopFacts ==
  ASSUME LoopParts
  PROVE  Loops!LoopCounted /\ Loops!EOSBehindLastItem
<1>1. toB \in Seq(0 .. length) /\ loopA \in Seq(0 .. length)
  BY DEF LoopParts, LoopTypes
<1>2. Loops!LoopCounted
  BY <1>1, LoopsCount DEF LoopParts, InnerLoop, Loops!LoopCounted
<1>3. ASSUME NEW k \in DOMAIN toB, toB[k] = 0
      PROVE  Occurs(toB, 0) > 0
  <2>1. Occurs(toB, 0) \in Nat /\ (Occurs(toB, 0) = 0 => toB[k] \notin {0})
    BY <1>1, AmongType DEF Occurs
  <2>. QED
    BY <1>3, <2>1
<1>. QED
  BY <1>2, <1>3 DEF LoopParts, InnerEnd, Loops!EOSBehindLastItem, Loops!EOS

-----------------------------------------------------------------------------
(* example-farm-ondemand.cpp: the emitter, its workers and the sink.        *)

FarmTypes ==
  /\ sent \in 0 .. length + 1 /\ input \in Seq(0 .. length) /\ data \in Seq(1 .. length)
  /\ ready \in SUBSET Farm!Worker /\ nready = Cardinality(ready) /\ last \in Nat
  /\ DOMAIN task = Farm!Worker /\ DOMAIN back = Farm!Worker
  /\ DOMAIN result = Farm!Worker /\ DOMAIN worker = Farm!Worker
  /\ \A w \in Farm!Worker : task[w] \in Seq(0 .. length) /\ result[w] \in Seq(0 .. length)
  /\ sum \in [1 .. length -> Nat]

(* The end of the source is behind its last task.                           *)
SourceEnd ==
  /\ \A k \in DOMAIN input : input[k] = 0 => k = Len(input) /\ sent > length
  /\ eos_received => input = <<>> /\ sent > length

(* A worker in a state, with its task queue, the queue of its flags and its *)
(* flag, before the emitter broadcasts EOS: the flag is up, or on its way,  *)
(* or there is one task the worker has not answered.                        *)
Serves(waiting, flags, state, up) ==
  /\ waiting \in Seq(1 .. length) /\ (flags = <<>> \/ flags = <<1>>)
  /\ \/ state = "idle" /\ Len(waiting) + Len(flags) = (IF up THEN 0 ELSE 1)
     \/ state = "busy" /\ Len(waiting) = 1 /\ flags = <<>> /\ ~up
     \/ /\ state = "notified" /\ waiting # <<>>
        /\ Len(waiting) + Len(flags) = (IF up THEN 1 ELSE 2)

(* Afterwards: EOS is on its way to the worker, or the worker has ended.    *)
Told(waiting, flags, state) ==
  \/ state = "idle" /\ waiting = <<0>> /\ flags = <<>>
  \/ state = "notified" /\ (\E t \in 1 .. length : waiting = <<t, 0>>) /\ flags = <<>>
  \/ state = "ended" /\ waiting = <<>> /\ (flags = <<0>> \/ flags = <<>>)

Serving ==
  /\ emitter = "running" /\ (data # <<>> => nready = 0)
  /\ \A w \in Farm!Worker : Serves(task[w], back[w], worker[w], w \in ready)

Finishing ==
  /\ sent > length /\ input = <<>> /\ data = <<>> /\ ready = Farm!Worker
  /\ \A w \in Farm!Worker : Told(task[w], back[w], worker[w])

(* A worker's results, and the end behind the last one.                     *)
Delivers(waiting, state, ended) ==
  /\ \A k \in DOMAIN waiting : waiting[k] = 0 => k = Len(waiting) /\ state = "ended"
  /\ ended => state = "ended" /\ waiting = <<>>
ResultsEnd ==
  \A w \in Farm!Worker : Delivers(result[w], worker[w], w \in sinkEOS)

(* Every task is in one place, or added up.                                 *)
OnItsWay(tasksOf, resultsOf, t) ==
  [w \in Farm!Worker |-> Occurs(tasksOf[w], t) + Occurs(resultsOf[w], t)]
InFarmOf(t) == SumOver(OnItsWay(task, result, t), Farm!Worker)
TaskOnce(t) ==
  (IF t > sent THEN 1 ELSE 0) + Occurs(input, t) + Occurs(data, t) + InFarmOf(t) + sum[t] = 1

FarmParts ==
  /\ FarmTypes /\ SourceEnd /\ (Serving \/ Finishing) /\ ResultsEnd
  /\ sink = "ended" => sinkEOS = Farm!Worker
  /\ \A t \in 1 .. length : TaskOnce(t)

FarmInv == network = "farm" => FarmParts

(* The workers of the farm are numbered.                                    *)
LEMMA FarmWorkers ==
  /\ IsFiniteSet(Farm!Worker) /\ Cardinality(Farm!Worker) = nworkers
  /\ \A w \in Farm!Worker : w \in Nat /\ w < nworkers
  /\ 0 \in Farm!Worker /\ nworkers \in Nat \ {0}
  /\ \A S : Farm!Cardinality(S) = Cardinality(S)
<1>1. nworkers \in Nat \ {0} /\ Farm!Worker = 0 .. nworkers - 1
  BY FarmAssumption DEF Farm!Worker
<1>2. IsFiniteSet(0 .. nworkers - 1) /\ Cardinality(0 .. nworkers - 1) = nworkers
  BY <1>1, FS_Interval
<1>3. \A S : Farm!Cardinality(S) = Cardinality(S)
  BY DEF Farm!Cardinality, Cardinality
<1>. QED
  BY <1>1, <1>2, <1>3

(* A sequence grows at the end and shrinks at the head.                     *)
LEMMA SeqGrow ==
  ASSUME NEW R, NEW q \in Seq(R), NEW m \in R
  PROVE  /\ Append(q, m) \in Seq(R) /\ Append(q, m) # <<>>
         /\ Len(Append(q, m)) = Len(q) + 1
         /\ Len(q) \in Nat /\ (Len(q) = 0 => q = <<>>) /\ (q # <<>> => Len(q) > 0)
OBVIOUS

(* A queue without its head.                                                *)
LEMMA SeqShrink ==
  ASSUME NEW R, NEW q \in Seq(R), q # <<>>
  PROVE  /\ Head(q) \in R /\ Tail(q) \in Seq(R)
         /\ Len(Tail(q)) = Len(q) - 1 /\ Len(q) > 0 /\ Len(q) \in Nat
OBVIOUS

(* Queues of no and of one message.                                         *)
LEMMA ShortLengths == Len(<<>>) = 0 /\ \A m : Len(<<m>>) = 1 /\ Tail(<<m>>) = <<>>
<1>1. \A m : Len(<<m>>) = 1
  OBVIOUS
<1>2. ASSUME NEW m
      PROVE  Tail(<<m>>) = <<>>
  OBVIOUS
<1>. QED
  BY <1>1, <1>2

(* A second message behind the first.                                       *)
LEMMA AppendToOne ==
  ASSUME NEW t, NEW m
  PROVE  Append(<<t>>, m) = <<t, m>>
<1>1. <<t>> \in Seq({t, m}) /\ Len(<<t>>) = 1
  OBVIOUS
<1>2. /\ Len(Append(<<t>>, m)) = 2 /\ Append(<<t>>, m) \in Seq({t, m})
      /\ Append(<<t>>, m)[1] = t /\ Append(<<t>>, m)[2] = m
  BY <1>1
<1>3. \A p, q \in Seq({t, m}) : Len(p) = 2 /\ Len(q) = 2 /\ p[1] = q[1] /\ p[2] = q[2] => p = q
  OBVIOUS
<1>4. /\ <<t, m>> \in Seq({t, m}) /\ Len(<<t, m>>) = 2
      /\ <<t, m>>[1] = t /\ <<t, m>>[2] = m
  OBVIOUS
<1>. QED
  BY <1>2, <1>3, <1>4

(* The queue of a worker's flags has at most one.                           *)
LEMMA FlagLength ==
  ASSUME NEW f, f = <<>> \/ f = << 1 >>
  PROVE  Len(f) \in {0, 1} /\ (Len(f) = 0 => f = <<>>) /\ (Len(f) = 1 => f = <<1>>)
<1>1. CASE f = <<>>
  BY <1>1, ShortLengths
<1>2. CASE f = <<1>>
  BY <1>2, ShortLengths
<1>. QED
  BY <1>1, <1>2

(* A queue with one message has nothing but its head.                       *)
LEMMA SingleElement ==
  ASSUME NEW R, NEW q \in Seq(R), Len(q) = 1
  PROVE  \E t \in R : q = <<t>>
<1>1. q[1] \in R /\ q = <<q[1]>>
  OBVIOUS
<1>. QED
  BY <1>1

(* A flag that is up gives way to a task.                                   *)
LEMMA ServesTask ==
  ASSUME NEW q, NEW f, NEW s, Serves(q, f, s, TRUE), NEW m \in 1 .. length
  PROVE  Serves(Append(q, m), f, s, FALSE)
<1>1. q \in Seq(1 .. length) /\ Len(f) \in Nat
  BY ShortLengths DEF Serves
<1>2. /\ Append(q, m) \in Seq(1 .. length) /\ Append(q, m) # <<>>
      /\ Len(q) \in Nat /\ Len(Append(q, m)) = Len(q) + 1
  BY <1>1, SeqGrow
<1>. QED
  BY <1>1, <1>2 DEF Serves

(* A flag that arrives is answered with a task, or goes up.                 *)
LEMMA ServesFlag ==
  ASSUME NEW q, NEW f, NEW s, NEW up \in BOOLEAN, Serves(q, f, s, up),
         f # <<>>, NEW m \in 1 .. length
  PROVE  /\ ~up /\ Tail(f) = <<>>
         /\ Serves(Append(q, m), Tail(f), s, FALSE) /\ Serves(q, Tail(f), s, TRUE)
<1>1. q \in Seq(1 .. length) /\ f = <<1>>
  BY DEF Serves
<1>2. Len(f) = 1 /\ Tail(f) = <<>> /\ Len(<<>>) = 0
  BY <1>1, ShortLengths
<1>3. /\ Append(q, m) \in Seq(1 .. length) /\ Append(q, m) # <<>>
      /\ Len(q) \in Nat /\ Len(Append(q, m)) = Len(q) + 1 /\ (q # <<>> => Len(q) > 0)
  BY <1>1, SeqGrow
<1>4. \/ s = "idle" /\ Len(q) = 0 /\ ~up
      \/ s = "notified" /\ q # <<>> /\ Len(q) = 1 /\ ~up
  BY <1>1, <1>2, <1>3 DEF Serves
<1>. QED
  BY <1>1, <1>2, <1>3, <1>4 DEF Serves

(* EOS is sent to a worker whose flag is up.                                *)
LEMMA ServesEOS ==
  ASSUME NEW q, NEW f, NEW s, Serves(q, f, s, TRUE)
  PROVE  Told(Append(q, 0), f, s)
<1>1. q \in Seq(1 .. length) /\ (f = <<>> \/ f = <<1>>) /\ Len(<<>>) = 0 /\ Len(<<1>>) = 1
  BY ShortLengths DEF Serves
<1>2. Len(q) \in Nat /\ (Len(q) = 0 => q = <<>>) /\ (q # <<>> => Len(q) > 0)
  <2>1. CASE q = <<>>
    BY <2>1, ShortLengths
  <2>2. CASE q # <<>>
    BY <1>1, <2>2, SeqShrink
  <2>. QED
    BY <2>1, <2>2
<1>3. CASE s = "idle"
  <2>1. q = <<>> /\ f = <<>>
    BY <1>1, <1>2, <1>3 DEF Serves
  <2>. QED
    BY <1>3, <2>1, AppendToEmpty DEF Told
<1>4. CASE s = "notified"
  <2>1. q # <<>> /\ Len(q) + Len(f) = 1
    BY <1>4 DEF Serves
  <2>2. Len(q) = 1 /\ f = <<>>
    <3>1. Len(f) \in {0, 1} /\ (Len(f) = 0 => f = <<>>)
      BY <1>1, FlagLength
    <3>2. Len(q) > 0 /\ Len(q) \in Nat
      BY <1>2, <2>1
    <3>3. \A a, b \in Nat : a > 0 /\ a + b = 1 => b = 0 /\ a = 1
      OBVIOUS
    <3>4. Len(f) \in Nat
      BY <3>1
    <3>5. Len(f) = 0 /\ Len(q) = 1
      BY <2>1, <3>2, <3>3, <3>4
    <3>. QED
      BY <3>1, <3>5
  <2>3. PICK t \in 1 .. length : q = <<t>>
    BY <1>1, <2>2, SingleElement
  <2>4. Append(<<t>>, 0) = <<t, 0>>
    BY AppendToOne
  <2>. QED
    BY <1>4, <2>2, <2>3, <2>4 DEF Told
<1>. QED
  BY <1>3, <1>4 DEF Serves

(* The worker takes a task, sends its flag, and its result.                 *)
LEMMA ServesWork ==
  ASSUME NEW q, NEW f, NEW s, NEW up \in BOOLEAN, Serves(q, f, s, up)
  PROVE  /\ q # <<>> => Head(q) \in 1 .. length
         /\ s = "idle" /\ q # <<>> => Serves(q, f, "busy", up)
         /\ s = "busy" => Serves(q, Append(f, 1), "notified", up)
         /\ s = "notified" => q # <<>> /\ Serves(Tail(q), f, "idle", up)
<1>1. q \in Seq(1 .. length) /\ (f = <<>> \/ f = <<1>>) /\ Len(<<>>) = 0 /\ Len(<<1>>) = 1
  BY ShortLengths DEF Serves
<1>2. Len(q) \in Nat /\ (q # <<>> => Len(q) > 0) /\ Len(f) \in {0, 1}
  BY <1>1, SeqShrink, ShortLengths
<1>3. q # <<>> => Head(q) \in 1 .. length /\ Tail(q) \in Seq(1 .. length) /\ Len(Tail(q)) = Len(q) - 1
  BY <1>1, SeqShrink
<1>4. ASSUME s = "idle", q # <<>>
      PROVE  Serves(q, f, "busy", up)
  <2>1. Len(q) + Len(f) = (IF up THEN 0 ELSE 1)
    BY <1>4 DEF Serves
  <2>2. Len(q) = 1 /\ f = <<>> /\ ~up
    <3>1. Len(f) \in {0, 1} /\ (Len(f) = 0 => f = <<>>)
      BY <1>1, FlagLength
    <3>2. Len(q) > 0 /\ Len(q) \in Nat
      BY <1>2, <1>4
    <3>3. Len(f) \in Nat /\ \A a, b \in Nat : a > 0 => a + b # 0 /\ (a + b = 1 => b = 0 /\ a = 1)
      BY <3>1
    <3>4. Len(q) + Len(f) # 0
      BY <3>2, <3>3
    <3>5. ~up /\ Len(q) + Len(f) = 1
      BY <2>1, <3>4
    <3>6. Len(f) = 0 /\ Len(q) = 1
      BY <3>2, <3>3, <3>5
    <3>. QED
      BY <3>1, <3>5, <3>6
  <2>. QED
    BY <1>1, <2>2 DEF Serves
<1>5. ASSUME s = "busy"
      PROVE  Serves(q, Append(f, 1), "notified", up)
  <2>1. Len(q) = 1 /\ f = <<>> /\ ~up /\ q # <<>>
    BY <1>1, <1>5 DEF Serves
  <2>2. Append(f, 1) = <<1>>
    BY <2>1, AppendToEmpty
  <2>. QED
    BY <1>1, <2>1, <2>2 DEF Serves
<1>6. ASSUME s = "notified"
      PROVE  q # <<>> /\ Serves(Tail(q), f, "idle", up)
  BY <1>1, <1>2, <1>3, <1>6 DEF Serves
<1>. QED
  BY <1>3, <1>4, <1>5, <1>6

(* The worker sends its last result, and ends.                              *)
LEMMA ToldWork ==
  ASSUME NEW q, NEW f, NEW s, Told(q, f, s)
  PROVE  /\ s # "busy"
         /\ s = "idle" => /\ q # <<>> /\ Head(q) = 0
                          /\ Told(Tail(q), Append(f, 0), "ended")
         /\ s = "notified" => /\ q # <<>> /\ Head(q) \in 1 .. length
                              /\ Told(Tail(q), f, "idle")
         /\ f = <<>> \/ f = <<0>>
<1>1. ASSUME s = "idle"
      PROVE  q # <<>> /\ Head(q) = 0 /\ Told(Tail(q), Append(f, 0), "ended")
  <2>1. q = <<0>> /\ f = <<>>
    BY <1>1 DEF Told
  <2>2. q # <<>> /\ Head(q) = 0 /\ Tail(q) = <<>>
    BY <2>1
  <2>. QED
    BY <2>1, <2>2, AppendToEmpty DEF Told
<1>2. ASSUME s = "notified"
      PROVE  q # <<>> /\ Head(q) \in 1 .. length /\ Told(Tail(q), f, "idle")
  <2>1. PICK t \in 1 .. length : q = <<t, 0>>
    BY <1>2 DEF Told
  <2>2. q # <<>> /\ Head(q) = t /\ Tail(q) = <<0>>
    BY <2>1
  <2>. QED
    BY <1>2, <2>1, <2>2 DEF Told
<1>. QED
  BY <1>1, <1>2 DEF Told

(* The results of a worker: one more, the end, the first one taken.         *)
LEMMA DeliversMore ==
  ASSUME NEW q \in Seq(0 .. length), NEW s, NEW e \in BOOLEAN, Delivers(q, s, e),
         s # "ended"
  PROVE  /\ ~e
         /\ \A t : Delivers(q, t, FALSE)
         /\ \A m \in 1 .. length : \A t : Delivers(Append(q, m), t, FALSE)
         /\ Delivers(Append(q, 0), "ended", FALSE)
<1>1. ~e /\ \A k \in DOMAIN q : q[k] # 0
  BY DEF Delivers
<1>2. \A t : Delivers(q, t, FALSE)
  BY <1>1 DEF Delivers
<1>3. ASSUME NEW m \in 0 .. length, NEW t, m # 0 \/ t = "ended"
      PROVE  Delivers(Append(q, m), t, FALSE)
  <2>1. /\ DOMAIN q = 1 .. Len(q) /\ Len(q) \in Nat /\ Len(Append(q, m)) = Len(q) + 1
        /\ DOMAIN Append(q, m) = 1 .. Len(q) + 1 /\ Append(q, m)[Len(q) + 1] = m
        /\ \A k \in 1 .. Len(q) : Append(q, m)[k] = q[k]
    OBVIOUS
  <2>2. \A k \in DOMAIN Append(q, m) : k \in DOMAIN q \/ k = Len(Append(q, m))
    BY <2>1
  <2>. QED
    BY <1>1, <1>3, <2>1, <2>2 DEF Delivers
<1>4. 0 \in 0 .. length /\ \A m \in 1 .. length : m \in 0 .. length /\ m # 0
  BY FarmAssumption
<1>. QED
  BY <1>1, <1>2, <1>3, <1>4

(* Taking the head keeps the end behind the last result.                    *)
LEMMA DeliversTail ==
  ASSUME NEW q \in Seq(0 .. length), NEW s, NEW e \in BOOLEAN, Delivers(q, s, e), q # <<>>
  PROVE  /\ ~e /\ Delivers(Tail(q), s, FALSE)
         /\ Head(q) = 0 => Delivers(Tail(q), s, TRUE)
<1>1. /\ DOMAIN q = 1 .. Len(q) /\ Len(q) \in Nat \ {0} /\ Head(q) = q[1]
      /\ Len(Tail(q)) = Len(q) - 1 /\ DOMAIN Tail(q) = 1 .. Len(q) - 1
      /\ \A k \in 1 .. Len(q) - 1 : Tail(q)[k] = q[k + 1]
      /\ (Len(q) = 1 => Tail(q) = <<>>)
  <2>1. /\ DOMAIN q = 1 .. Len(q) /\ Len(q) \in Nat \ {0} /\ Head(q) = q[1]
        /\ Len(Tail(q)) = Len(q) - 1 /\ DOMAIN Tail(q) = 1 .. Len(q) - 1
        /\ \A k \in 1 .. Len(q) - 1 : Tail(q)[k] = q[k + 1]
    OBVIOUS
  <2>2. Tail(q) \in Seq(0 .. length)
    BY TailRange
  <2>3. Len(q) = 1 => Tail(q) = <<>>
    BY <2>1, <2>2, SeqShrink
  <2>. QED
    BY <2>1, <2>3
<1>2. \A k \in DOMAIN Tail(q) : Tail(q)[k] = 0 => k = Len(Tail(q)) /\ s = "ended"
  <2>. SUFFICES ASSUME NEW k \in 1 .. Len(q) - 1, q[k + 1] = 0
                PROVE  k = Len(q) - 1 /\ s = "ended"
    BY <1>1
  <2>1. k + 1 \in DOMAIN q /\ k \in Nat
    BY <1>1
  <2>2. k + 1 = Len(q) /\ s = "ended"
    BY <2>1 DEF Delivers
  <2>3. Len(q) \in Nat /\ \A n, j \in Nat : j + 1 = n => j = n - 1
    BY <1>1
  <2>. QED
    BY <2>1, <2>2, <2>3
<1>3. ASSUME Head(q) = 0
      PROVE  Tail(q) = <<>> /\ s = "ended"
  <2>1. 1 \in DOMAIN q /\ q[1] = 0
    BY <1>1, <1>3
  <2>2. 1 = Len(q) /\ s = "ended"
    BY <2>1 DEF Delivers
  <2>. QED
    BY <1>1, <2>2
<1>. QED
  BY <1>2, <1>3 DEF Delivers

(* Tasks move in the queues of one worker.                                  *)
Moves(T, R, T2, R2, w) ==
  /\ \A v \in Farm!Worker : /\ T[v] \in Seq(0 .. length) /\ T2[v] \in Seq(0 .. length)
                            /\ R[v] \in Seq(0 .. length) /\ R2[v] \in Seq(0 .. length)
  /\ \A v \in Farm!Worker : v # w => T2[v] = T[v] /\ R2[v] = R[v]

(* A task moves in the queues of one worker.                                *)
LEMMA WayChange ==
  \A T, R, T2, R2, t : \A w \in Farm!Worker :
    Moves(T, R, T2, R2, w)
    => /\ SumOver(OnItsWay(T, R, t), Farm!Worker) \in Nat
       /\ SumOver(OnItsWay(T2, R2, t), Farm!Worker) \in Nat
       /\ SumOver(OnItsWay(T2, R2, t), Farm!Worker)
            = SumOver(OnItsWay(T, R, t), Farm!Worker)
                + (Occurs(T2[w], t) + Occurs(R2[w], t)) - (Occurs(T[w], t) + Occurs(R[w], t))
<1>0. SUFFICES ASSUME NEW T, NEW R, NEW T2, NEW R2, NEW t, NEW w \in Farm!Worker,
                      Moves(T, R, T2, R2, w)
               PROVE  /\ SumOver(OnItsWay(T, R, t), Farm!Worker) \in Nat
                      /\ SumOver(OnItsWay(T2, R2, t), Farm!Worker) \in Nat
                      /\ SumOver(OnItsWay(T2, R2, t), Farm!Worker)
                           = SumOver(OnItsWay(T, R, t), Farm!Worker)
                               + (Occurs(T2[w], t) + Occurs(R2[w], t))
                               - (Occurs(T[w], t) + Occurs(R[w], t))
  OBVIOUS
<1>1. PICK f, g : f = OnItsWay(T, R, t) /\ g = OnItsWay(T2, R2, t)
  OBVIOUS
<1>2. \A v \in Farm!Worker : /\ Occurs(T[v], t) \in Nat /\ Occurs(R[v], t) \in Nat
                             /\ Occurs(T2[v], t) \in Nat /\ Occurs(R2[v], t) \in Nat
  BY <1>0, QueueCounts DEF Moves
<1>3. \A v \in Farm!Worker : /\ f[v] = Occurs(T[v], t) + Occurs(R[v], t)
                             /\ g[v] = Occurs(T2[v], t) + Occurs(R2[v], t)
  BY <1>1 DEF OnItsWay
<1>4. \A v \in Farm!Worker : f[v] \in Nat /\ g[v] \in Nat /\ f[v] \in Int /\ g[v] \in Int
  BY <1>2, <1>3
<1>5. \A v \in Farm!Worker \ {w} : f[v] = g[v]
  BY <1>0, <1>3 DEF Moves
<1>6. IsFiniteSet(Farm!Worker)
  BY FarmWorkers
<1>7. SumOver(f, Farm!Worker) \in Nat /\ SumOver(g, Farm!Worker) \in Nat
  BY <1>4, <1>6, SumType
<1>8. SumOver(g, Farm!Worker) = SumOver(f, Farm!Worker) + (g[w] - f[w])
  BY <1>4, <1>5, <1>6, SumChange
<1>9. SumOver(g, Farm!Worker)
        = SumOver(f, Farm!Worker) + (Occurs(T2[w], t) + Occurs(R2[w], t))
            - (Occurs(T[w], t) + Occurs(R[w], t))
  BY <1>2, <1>3, <1>7, <1>8
<1>. QED
  BY <1>1, <1>7, <1>9

(* EOS is no task.                                                          *)
LEMMA WayBroadcast ==
  ASSUME NEW T, NEW R, NEW T2, NEW t \in 1 .. length,
         \A v \in Farm!Worker : T[v] \in Seq(0 .. length) /\ T2[v] = Append(T[v], 0)
  PROVE  SumOver(OnItsWay(T2, R, t), Farm!Worker) = SumOver(OnItsWay(T, R, t), Farm!Worker)
<1>1. 0 \in 0 .. length /\ t # 0
  BY FarmAssumption
<1>2. ASSUME NEW v \in Farm!Worker
      PROVE  Occurs(T2[v], t) = Occurs(T[v], t)
  <2>1. Occurs(Append(T[v], 0), t) = Occurs(T[v], t) + (IF 0 = t THEN 1 ELSE 0)
    BY <1>1, QueueAppend
  <2>2. Occurs(T[v], t) \in Nat
    BY QueueCounts
  <2>3. Occurs(T[v], t) + (IF 0 = t THEN 1 ELSE 0) = Occurs(T[v], t)
    BY <1>1, <2>2
  <2>4. T2[v] = Append(T[v], 0)
    OBVIOUS
  <2>. QED
    BY <2>1, <2>3, <2>4
<1>3. \A v \in Farm!Worker : OnItsWay(T2, R, t)[v] = OnItsWay(T, R, t)[v]
  BY <1>2 DEF OnItsWay
<1>. QED
  BY <1>3, FarmWorkers, SumEqual

(* Where a task can be, in numbers.                                         *)
LEMMA FarmNumbers ==
  ASSUME FarmTypes, NEW t \in 1 .. length
  PROVE  /\ t # 0 /\ Occurs(input, t) \in Nat /\ Occurs(data, t) \in Nat
         /\ InFarmOf(t) \in Nat /\ sum[t] \in Nat
         /\ data \in Seq(0 .. length)
<1>1. data \in Seq(0 .. length) /\ input \in Seq(0 .. length) /\ t # 0
  <2>1. 1 .. length \subseteq 0 .. length
    BY FarmAssumption
  <2>2. data \in Seq(1 .. length)
    BY DEF FarmTypes
  <2>3. \A A, B : A \subseteq B => Seq(A) \subseteq Seq(B)
    OBVIOUS
  <2>4. t # 0 /\ input \in Seq(0 .. length)
    BY FarmAssumption DEF FarmTypes
  <2>. QED
    BY <2>1, <2>2, <2>3, <2>4
<1>2. InFarmOf(t) \in Nat
  <2>1. Moves(task, result, task, result, 0) /\ 0 \in Farm!Worker
    BY FarmWorkers DEF FarmTypes, Moves
  <2>. QED
    BY <2>1, WayChange DEF InFarmOf
<1>. QED
  BY <1>1, <1>2, QueueCounts DEF FarmTypes

(* A step in which a task moves in the queues of one worker.                *)
LEMMA FarmMove ==
  ASSUME FarmTypes, FarmTypes', NEW w \in Farm!Worker, NEW t \in 1 .. length,
         \A v \in Farm!Worker : v # w => task'[v] = task[v] /\ result'[v] = result[v]
  PROVE  /\ Occurs(task[w], t) \in Nat /\ Occurs(result[w], t) \in Nat
         /\ Occurs(task'[w], t) \in Nat /\ Occurs(result'[w], t) \in Nat
         /\ InFarmOf(t) \in Nat /\ InFarmOf(t)' \in Nat
         /\ InFarmOf(t)' = InFarmOf(t) + (Occurs(task'[w], t) + Occurs(result'[w], t))
                                       - (Occurs(task[w], t) + Occurs(result[w], t))
<1>1. \A v \in Farm!Worker : /\ task[v] \in Seq(0 .. length) /\ task'[v] \in Seq(0 .. length)
                             /\ result[v] \in Seq(0 .. length) /\ result'[v] \in Seq(0 .. length)
  BY DEF FarmTypes
<1>2. PICK T, R, T2, R2 : T = task /\ R = result /\ T2 = task' /\ R2 = result'
  OBVIOUS
<1>3. /\ SumOver(OnItsWay(T, R, t), Farm!Worker) \in Nat
      /\ SumOver(OnItsWay(T2, R2, t), Farm!Worker) \in Nat
      /\ SumOver(OnItsWay(T2, R2, t), Farm!Worker)
            = SumOver(OnItsWay(T, R, t), Farm!Worker)
                + (Occurs(T2[w], t) + Occurs(R2[w], t)) - (Occurs(T[w], t) + Occurs(R[w], t))
  <2>1. \A v \in Farm!Worker : /\ T[v] \in Seq(0 .. length) /\ T2[v] \in Seq(0 .. length)
                               /\ R[v] \in Seq(0 .. length) /\ R2[v] \in Seq(0 .. length)
    BY <1>1, <1>2
  <2>2. \A v \in Farm!Worker : v # w => T2[v] = T[v] /\ R2[v] = R[v]
    BY <1>2
  <2>3. Moves(T, R, T2, R2, w)
    BY <2>1, <2>2 DEF Moves
  <2>. QED
    BY <2>3, WayChange
<1>4. /\ Occurs(task[w], t) \in Nat /\ Occurs(result[w], t) \in Nat
      /\ Occurs(task'[w], t) \in Nat /\ Occurs(result'[w], t) \in Nat
  BY <1>1, QueueCounts
<1>. QED
  BY <1>2, <1>3, <1>4 DEF InFarmOf

(* The queues of the other workers stay as they are.                        *)
LEMMA FarmQueues ==
  ASSUME NEW q, DOMAIN q = Farm!Worker, NEW w \in Farm!Worker, NEW m
  PROVE  /\ DOMAIN Farm!Put(q, w, m) = Farm!Worker /\ DOMAIN Farm!Get(q, w) = Farm!Worker
         /\ Farm!Put(q, w, m)[w] = Append(q[w], m) /\ Farm!Get(q, w)[w] = Tail(q[w])
         /\ \A v \in Farm!Worker : v # w => Farm!Put(q, w, m)[v] = q[v] /\ Farm!Get(q, w)[v] = q[v]
         /\ DOMAIN Farm!Broadcast(q) = Farm!Worker
         /\ Farm!Broadcast(q)[w] = Append(q[w], 0)
BY DEF Farm!Put, Farm!Get, Farm!Broadcast, Farm!EOS

(* A task taken from a queue of the farm.                                   *)
LEMMA FarmGet ==
  ASSUME NEW q, DOMAIN q = Farm!Worker, NEW w \in Farm!Worker
  PROVE  /\ DOMAIN Farm!Get(q, w) = Farm!Worker /\ Farm!Get(q, w)[w] = Tail(q[w])
         /\ \A v \in Farm!Worker : v # w => Farm!Get(q, w)[v] = q[v]
BY DEF Farm!Get

(* A task sent to a queue of the farm.                                      *)
LEMMA FarmPut ==
  ASSUME NEW q, DOMAIN q = Farm!Worker, NEW w \in Farm!Worker, NEW m
  PROVE  /\ DOMAIN Farm!Put(q, w, m) = Farm!Worker /\ Farm!Put(q, w, m)[w] = Append(q[w], m)
         /\ \A v \in Farm!Worker : v # w => Farm!Put(q, w, m)[v] = q[v]
BY DEF Farm!Put

(* The worker selected is one whose flag is up.                             *)
LEMMA SelectedIsReady ==
  ASSUME ready \in SUBSET Farm!Worker, ready # {}, last \in Nat
  PROVE  Farm!selectReadyWorker \in ready
<1>. DEFINE rank(w) == IF w > last THEN w ELSE w + nworkers + 1
            C == {rank(w) : w \in ready}
<1>1. \A w \in ready : rank(w) \in Nat
  BY FarmWorkers
<1>2. C \in SUBSET Nat /\ C # {}
  BY <1>1
<1>3. PICK n \in C : \A k \in C : n <= k
  <2>. HIDE DEF C
  <2>. QED BY <1>2, LeastNatural
<1>4. PICK w \in ready : n = rank(w)
  BY <1>3
<1>5. \A v \in ready : rank(w) <= rank(v)
  BY <1>3, <1>4
<1>6. \E x \in ready : \A v \in ready : rank(x) <= rank(v)
  BY <1>5
<1>. QED
  BY <1>6 DEF Farm!selectReadyWorker

(* The number of flags the emitter counts.                                  *)
LEMMA FlagsUp ==
  ASSUME FarmTypes
  PROVE  /\ nready \in Nat /\ (nready > 0 => ready # {}) /\ (nready = nworkers => ready = Farm!Worker)
         /\ \A w \in ready : nready - 1 = Cardinality(ready \ {w})
         /\ \A w \in Farm!Worker \ ready : nready + 1 = Cardinality(ready \cup {w})
<1>1. IsFiniteSet(ready) /\ ready \in SUBSET Farm!Worker /\ nready = Cardinality(ready)
  BY FarmWorkers, FS_Subset DEF FarmTypes
<1>2. nready \in Nat
  BY <1>1, FS_CardinalityType
<1>3. nready > 0 => ready # {}
  BY <1>1, FS_EmptySet
<1>4. nready = nworkers => ready = Farm!Worker
  BY <1>1, FarmWorkers, FS_Subset
<1>5. \A w \in ready : nready - 1 = Cardinality(ready \ {w})
  BY <1>1, FS_RemoveElement
<1>6. \A w \in Farm!Worker \ ready : nready + 1 = Cardinality(ready \cup {w})
  BY <1>1, FS_AddElement
<1>. QED
  BY <1>2, <1>3, <1>4, <1>5, <1>6

(* The source sends the next task, or EOS.                                  *)
LEMMA SourceSendStep ==
  ASSUME FarmParts, Farm!SourceSend
  PROVE  FarmParts'
<1>1. /\ sent <= length /\ sent' = sent + 1
      /\ input' = Append(input, IF sent < length THEN sent + 1 ELSE 0)
      /\ UNCHANGED <<ready, nready, last, data, eos_received, emitter, task, back, result,
                     worker, sum, sinkEOS, sink>>
  BY DEF Farm!SourceSend, Farm!emitterVars, Farm!sinkVars, Farm!EOS
<1>2. sent \in 0 .. length /\ length \in Nat /\ input \in Seq(0 .. length) /\ ~eos_received
  BY <1>1, FarmAssumption DEF FarmParts, FarmTypes, SourceEnd
<1>3. PICK m \in 0 .. length : /\ m = (IF sent < length THEN sent + 1 ELSE 0)
                               /\ input' = Append(input, m)
  BY <1>1, <1>2
<1>4. /\ input' \in Seq(0 .. length)
      /\ \A t : Occurs(input', t) = Occurs(input, t) + (IF m = t THEN 1 ELSE 0)
  BY <1>2, <1>3, QueueAppend
<1>5. FarmTypes'
  <2>1. sent' \in 0 .. length + 1
    BY <1>1, <1>2
  <2>. QED
    BY <1>1, <1>4, <2>1 DEF FarmParts, FarmTypes
<1>6. SourceEnd'
  <2>1. \A k \in DOMAIN input : input[k] # 0
    BY <1>1, <1>2 DEF FarmParts, SourceEnd
  <2>2. /\ Len(input) \in Nat /\ Len(input') = Len(input) + 1 /\ input'[Len(input) + 1] = m
        /\ \A k \in 1 .. Len(input) : input'[k] = input[k]
    BY <1>2, <1>3, AppendElements
  <2>3. DOMAIN input = 1 .. Len(input) /\ DOMAIN input' = 1 .. Len(input')
    BY <1>2, <1>4
  <2>. SUFFICES ASSUME NEW k \in DOMAIN input', input'[k] = 0
                PROVE  k = Len(input') /\ sent' > length
    BY <1>1, <1>2 DEF SourceEnd
  <2>4. k = Len(input) + 1
    BY <2>1, <2>2, <2>3
  <2>5. m = 0
    BY <2>2, <2>4
  <2>6. ~(sent < length)
    BY <1>2, <1>3, <2>5
  <2>. QED
    BY <1>1, <1>2, <2>2, <2>4, <2>6
<1>7. Serving /\ Serving'
  <2>1. Serving
    BY <1>2 DEF FarmParts, Finishing
  <2>. QED
    BY <1>1, <2>1 DEF Serving
<1>8. ResultsEnd' /\ (sink = "ended" => sinkEOS = Farm!Worker)'
  BY <1>1 DEF FarmParts, ResultsEnd
<1>9. ASSUME NEW t \in 1 .. length
      PROVE  TaskOnce(t)'
  <2>1. /\ t # 0 /\ Occurs(input, t) \in Nat /\ Occurs(data, t) \in Nat
        /\ InFarmOf(t) \in Nat /\ sum[t] \in Nat /\ TaskOnce(t)
    BY FarmNumbers DEF FarmParts
  <2>2. (IF t > sent' THEN 1 ELSE 0) + (IF m = t THEN 1 ELSE 0) = IF t > sent THEN 1 ELSE 0
    BY <1>1, <1>2, <1>3
  <2>3. Occurs(input', t) = Occurs(input, t) + (IF m = t THEN 1 ELSE 0)
    BY <1>4
  <2>4. InFarmOf(t)' = InFarmOf(t) /\ Occurs(data, t)' = Occurs(data, t) /\ sum'[t] = sum[t]
    BY <1>1 DEF InFarmOf
  <2>5. TaskOnce(t)' <=> (IF t > sent' THEN 1 ELSE 0) + Occurs(input', t) + Occurs(data, t)
                           + InFarmOf(t) + sum[t] = 1
    BY <2>4 DEF TaskOnce
  <2>6. (IF t > sent THEN 1 ELSE 0) + Occurs(input, t) + Occurs(data, t) + InFarmOf(t) + sum[t] = 1
    BY <2>1 DEF TaskOnce
  <2>. QED
    BY <2>1, <2>2, <2>3, <2>5, <2>6
<1>. QED
  BY <1>5, <1>6, <1>7, <1>8, <1>9 DEF FarmParts

(* The emitter takes what is first in its queue.                            *)
LEMMA InputTail ==
  ASSUME FarmTypes, SourceEnd, input # <<>>
  PROVE  /\ Head(input) \in 0 .. length /\ Tail(input) \in Seq(0 .. length) /\ ~eos_received
         /\ \A k \in DOMAIN Tail(input) :
              Tail(input)[k] = 0 => k = Len(Tail(input)) /\ sent > length
         /\ Head(input) = 0 => Tail(input) = <<>> /\ sent > length
         /\ \A t : Occurs(input, t)
                     = Occurs(Tail(input), t) + (IF Head(input) = t THEN 1 ELSE 0)
<1>1. input \in Seq(0 .. length) /\ ~eos_received
  BY DEF FarmTypes, SourceEnd
<1>2. Head(input) \in 0 .. length /\ Tail(input) \in Seq(0 .. length)
      /\ \A t : Occurs(input, t) = Occurs(Tail(input), t) + (IF Head(input) = t THEN 1 ELSE 0)
  BY <1>1, QueueTail
<1>3. Delivers(input, IF sent > length THEN "ended" ELSE "idle", FALSE)
  BY DEF SourceEnd, Delivers
<1>4. /\ Delivers(Tail(input), IF sent > length THEN "ended" ELSE "idle", FALSE)
      /\ Head(input) = 0 => Delivers(Tail(input), IF sent > length THEN "ended" ELSE "idle", TRUE)
  BY <1>1, <1>3, DeliversTail
<1>. QED
  BY <1>1, <1>2, <1>4 DEF Delivers

(* A task of the source goes to a worker, or into the buffer.               *)
LEMMA EmitterTaskStep ==
  ASSUME FarmParts, Farm!EmitterTask
  PROVE  FarmParts'
<1>1. /\ emitter = "running" /\ input # <<>> /\ Head(input) # 0 /\ input' = Tail(input)
      /\ UNCHANGED <<sent, eos_received, emitter, back, result, worker, sum, sinkEOS, sink>>
  BY DEF Farm!EmitterTask, Farm!sinkVars, Farm!EOS
<1>2. /\ Head(input) \in 0 .. length /\ input' \in Seq(0 .. length) /\ ~eos_received
      /\ \A k \in DOMAIN input' : input'[k] = 0 => k = Len(input') /\ sent > length
      /\ \A t : Occurs(input, t) = Occurs(input', t) + (IF Head(input) = t THEN 1 ELSE 0)
  BY <1>1, InputTail DEF FarmParts
<1>3. PICK m \in 1 .. length : m = Head(input)
  BY <1>1, <1>2, FarmAssumption
<1>4. FarmTypes /\ Serving
  BY <1>1 DEF FarmParts, Finishing
<1>5. SourceEnd' /\ ResultsEnd' /\ (sink = "ended" => sinkEOS = Farm!Worker)'
  BY <1>1, <1>2 DEF FarmParts, SourceEnd, ResultsEnd
<1>6. 1 .. length \subseteq 0 .. length
  BY FarmAssumption
<1>7. CASE Farm!SomeoneReady
  <2>1. PICK v : v = Farm!selectReadyWorker
    OBVIOUS
  <2>2. /\ task' = Farm!Put(task, v, m) /\ ready' = ready \ {v} /\ last' = v
        /\ nready' = nready - 1 /\ data' = data
    BY <1>3, <1>7, <2>1 DEF Farm!EmitterTask
  <2>3. nready > 0 /\ nready \in Nat /\ ready # {} /\ data = <<>>
    BY <1>4, <1>7, FlagsUp DEF Farm!SomeoneReady, Serving
  <2>4. v \in ready /\ v \in Farm!Worker /\ v \in Nat
    BY <1>4, <2>1, <2>3, SelectedIsReady, FarmWorkers DEF FarmTypes
  <2>5. /\ DOMAIN task' = Farm!Worker /\ task'[v] = Append(task[v], m)
        /\ \A w \in Farm!Worker : w # v => task'[w] = task[w]
    <3>1. DOMAIN task = Farm!Worker
      BY <1>4 DEF FarmTypes
    <3>. QED
      BY <2>2, <2>4, <3>1, FarmPut
  <2>6. m \in 0 .. length /\ task[v] \in Seq(0 .. length)
    BY <1>4, <1>6, <2>4 DEF FarmTypes
  <2>7. /\ task'[v] \in Seq(0 .. length)
        /\ \A t : Occurs(task'[v], t) = Occurs(task[v], t) + (IF m = t THEN 1 ELSE 0)
    BY <2>5, <2>6, QueueAppend
  <2>8. \A w \in Farm!Worker : task'[w] \in Seq(0 .. length)
    BY <1>4, <2>5, <2>7 DEF FarmTypes
  <2>9. FarmTypes'
    <3>1. nready' = Cardinality(ready')
      BY <1>4, <2>2, <2>4, FlagsUp
    <3>. QED
      BY <1>1, <1>2, <1>4, <2>2, <2>4, <2>5, <2>8, <3>1 DEF FarmTypes
  <2>10. Serving'
    <3>1. Serves(task'[v], back[v], worker[v], FALSE)
      <4>1. Serves(task[v], back[v], worker[v], TRUE)
        BY <1>4, <2>4 DEF Serving
      <4>. QED
        BY <2>5, <4>1, ServesTask
    <3>2. ASSUME NEW w \in Farm!Worker
          PROVE  Serves(task'[w], back'[w], worker'[w], w \in ready')
      <4>1. CASE w = v
        <5>1. (w \in ready') = FALSE
          BY <2>2, <4>1
        <5>. QED
          BY <1>1, <3>1, <4>1, <5>1
      <4>2. CASE w # v
        <5>1. (w \in ready') = (w \in ready)
          BY <2>2, <4>2
        <5>. QED
          BY <1>1, <1>4, <2>5, <4>2, <5>1 DEF Serving
      <4>. QED
        BY <4>1, <4>2
    <3>. QED
      BY <1>1, <2>2, <2>3, <3>2 DEF Serving
  <2>11. ASSUME NEW t \in 1 .. length
         PROVE  TaskOnce(t)'
    <3>1. /\ Occurs(data, t) \in Nat /\ InFarmOf(t) \in Nat /\ sum[t] \in Nat
          /\ Occurs(input, t) \in Nat /\ TaskOnce(t)
      BY <1>4, FarmNumbers DEF FarmParts
    <3>2. /\ Occurs(task[v], t) \in Nat /\ Occurs(result[v], t) \in Nat
          /\ Occurs(input', t) \in Nat
      BY <1>2, <1>4, <2>4, <2>6, QueueCounts DEF FarmTypes
    <3>3. InFarmOf(t)' = InFarmOf(t) + (Occurs(task'[v], t) + Occurs(result'[v], t))
                           - (Occurs(task[v], t) + Occurs(result[v], t))
      <4>1. \A w \in Farm!Worker : w # v => task'[w] = task[w] /\ result'[w] = result[w]
        BY <1>1, <2>5
      <4>. QED
        BY <1>4, <2>4, <2>9, <4>1, FarmMove
    <3>4. InFarmOf(t)' = InFarmOf(t) + (IF m = t THEN 1 ELSE 0)
      <4>1. Occurs(task'[v], t) = Occurs(task[v], t) + (IF m = t THEN 1 ELSE 0)
        BY <2>7
      <4>2. result' = result
        BY <1>1
      <4>. QED
        BY <3>1, <3>2, <3>3, <4>1, <4>2
    <3>5. Occurs(input, t) = Occurs(input', t) + (IF m = t THEN 1 ELSE 0)
      BY <1>2, <1>3
    <3>6. TaskOnce(t)' <=> (IF t > sent THEN 1 ELSE 0) + Occurs(input', t) + Occurs(data, t)
                             + InFarmOf(t)' + sum[t] = 1
      BY <1>1, <2>2 DEF TaskOnce
    <3>7. (IF t > sent THEN 1 ELSE 0) + Occurs(input, t) + Occurs(data, t) + InFarmOf(t) + sum[t] = 1
      BY <3>1 DEF TaskOnce
    <3>. QED
      BY <3>1, <3>2, <3>4, <3>5, <3>6, <3>7
  <2>. QED
    BY <1>5, <2>9, <2>10, <2>11 DEF FarmParts
<1>8. CASE ~Farm!SomeoneReady
  <2>1. data' = Append(data, m) /\ UNCHANGED <<task, ready, last, nready>>
    BY <1>3, <1>8 DEF Farm!EmitterTask
  <2>2. data \in Seq(1 .. length) /\ data' \in Seq(1 .. length)
    BY <1>4, <2>1, SeqGrow DEF FarmTypes
  <2>3. FarmTypes'
    BY <1>1, <1>2, <1>4, <2>1, <2>2 DEF FarmTypes
  <2>4. Serving'
    <3>1. nready = 0
      BY <1>4, <1>8, FlagsUp DEF Farm!SomeoneReady
    <3>. QED
      BY <1>1, <1>4, <2>1, <3>1 DEF Serving
  <2>5. ASSUME NEW t \in 1 .. length
        PROVE  TaskOnce(t)'
    <3>1. /\ Occurs(data, t) \in Nat /\ InFarmOf(t) \in Nat /\ sum[t] \in Nat
          /\ Occurs(input, t) \in Nat /\ TaskOnce(t) /\ data \in Seq(0 .. length)
      BY <1>4, FarmNumbers DEF FarmParts
    <3>2. Occurs(input', t) \in Nat
      BY <1>2, QueueCounts
    <3>3. Occurs(data', t) = Occurs(data, t) + (IF m = t THEN 1 ELSE 0)
      BY <1>6, <2>1, <3>1, QueueAppend
    <3>4. Occurs(input, t) = Occurs(input', t) + (IF m = t THEN 1 ELSE 0)
      BY <1>2, <1>3
    <3>5. InFarmOf(t)' = InFarmOf(t)
      BY <1>1, <2>1 DEF InFarmOf
    <3>6. TaskOnce(t)' <=> (IF t > sent THEN 1 ELSE 0) + Occurs(input', t) + Occurs(data', t)
                             + InFarmOf(t) + sum[t] = 1
      BY <1>1, <3>5 DEF TaskOnce
    <3>7. (IF t > sent THEN 1 ELSE 0) + Occurs(input, t) + Occurs(data, t) + InFarmOf(t) + sum[t] = 1
      BY <3>1 DEF TaskOnce
    <3>8. PICK s, u \in Nat : s = (IF t > sent THEN 1 ELSE 0) /\ u = (IF m = t THEN 1 ELSE 0)
      OBVIOUS
    <3>9. Occurs(data', t) = Occurs(data, t) + u /\ Occurs(input, t) = Occurs(input', t) + u
      BY <3>3, <3>4, <3>8
    <3>10. s + Occurs(input, t) + Occurs(data, t) + InFarmOf(t) + sum[t] = 1
      BY <3>7, <3>8
    <3>11. s + Occurs(input', t) + Occurs(data', t) + InFarmOf(t) + sum[t] = 1
      BY <3>1, <3>2, <3>9, <3>10
    <3>. QED
      BY <3>6, <3>8, <3>11
  <2>. QED
    BY <1>5, <2>3, <2>4, <2>5 DEF FarmParts
<1>. QED
  BY <1>7, <1>8

(* A ready flag is answered with the newest task of the buffer; or it goes  *)
(* up, and the emitter may end the farm.                                    *)
LEMMA EmitterReadyStep ==
  ASSUME FarmParts, NEW w \in Farm!Worker, Farm!EmitterReady(w)
  PROVE  FarmParts'
<1>1. /\ emitter = "running" /\ back[w] # <<>> /\ Head(back[w]) = 1 /\ back' = Farm!Get(back, w)
      /\ UNCHANGED <<sent, input, last, eos_received, result, worker, sum, sinkEOS, sink>>
  BY DEF Farm!EmitterReady, Farm!sinkVars, Farm!Flag
<1>2. FarmTypes /\ Serving
  <2>1. Finishing => back[w] = <<0>> \/ back[w] = <<>>
    BY ToldWork DEF Finishing
  <2>2. Head(<<0>>) = 0
    OBVIOUS
  <2>. QED
    BY <1>1, <2>1, <2>2 DEF FarmParts
<1>3. /\ DOMAIN back' = Farm!Worker /\ back'[w] = Tail(back[w])
      /\ \A v \in Farm!Worker : v # w => back'[v] = back[v]
  <2>1. DOMAIN back = Farm!Worker
    BY <1>2 DEF FarmTypes
  <2>. QED
    BY <1>1, <2>1, FarmGet
<1>4. /\ w \notin ready /\ Tail(back[w]) = <<>>
      /\ \A m \in 1 .. length : Serves(Append(task[w], m), Tail(back[w]), worker[w], FALSE)
      /\ Serves(task[w], Tail(back[w]), worker[w], TRUE)
  <2>1. Serves(task[w], back[w], worker[w], w \in ready) /\ (w \in ready) \in BOOLEAN
    BY <1>2 DEF Serving
  <2>2. \A m \in 1 .. length :
          /\ ~(w \in ready) /\ Tail(back[w]) = <<>>
          /\ Serves(Append(task[w], m), Tail(back[w]), worker[w], FALSE)
          /\ Serves(task[w], Tail(back[w]), worker[w], TRUE)
    BY <1>1, <2>1, ServesFlag
  <2>3. length \in 1 .. length
    BY FarmAssumption
  <2>. QED
    BY <2>2, <2>3
<1>5. SourceEnd' /\ ResultsEnd' /\ (sink = "ended" => sinkEOS = Farm!Worker)'
  BY <1>1 DEF FarmParts, SourceEnd, ResultsEnd
<1>6. \A t \in 1 .. length :
        /\ Occurs(data, t) \in Nat /\ InFarmOf(t) \in Nat /\ sum[t] \in Nat
        /\ Occurs(input, t) \in Nat /\ data \in Seq(0 .. length) /\ t # 0
        /\ (IF t > sent THEN 1 ELSE 0) + Occurs(input, t) + Occurs(data, t) + InFarmOf(t) + sum[t] = 1
  BY <1>2, FarmNumbers DEF FarmParts, TaskOnce
<1>7. ASSUME NEW t \in 1 .. length
      PROVE  TaskOnce(t)' <=> (IF t > sent THEN 1 ELSE 0) + Occurs(input, t) + Occurs(data', t)
                                + InFarmOf(t)' + sum[t] = 1
  BY <1>1 DEF TaskOnce
<1>8. CASE data # <<>>
  <2>1. /\ task' = Farm!Put(task, w, data[Len(data)]) /\ data' = SubSeq(data, 1, Len(data) - 1)
        /\ UNCHANGED <<ready, nready, emitter>>
    BY <1>8 DEF Farm!EmitterReady, Farm!PopBack, Farm!Front, Farm!Last
  <2>2. /\ data' \in Seq(1 .. length) /\ data[Len(data)] \in 1 .. length
        /\ \A P : Among(data, P) = Among(data', P) + (IF data[Len(data)] \in P THEN 1 ELSE 0)
    <3>1. data \in Seq(1 .. length)
      BY <1>2 DEF FarmTypes
    <3>2. \A P : /\ SubSeq(data, 1, Len(data) - 1) \in Seq(1 .. length)
                 /\ data[Len(data)] \in 1 .. length
                 /\ Among(data, P) = Among(SubSeq(data, 1, Len(data) - 1), P)
                                       + (IF data[Len(data)] \in P THEN 1 ELSE 0)
      BY <1>8, <3>1, AmongFront
    <3>. QED
      BY <2>1, <3>2
  <2>3. PICK m \in 1 .. length : m = data[Len(data)]
    BY <2>2
  <2>4. \A t : Occurs(data, t) = Occurs(data', t) + (IF m = t THEN 1 ELSE 0)
    BY <2>2, <2>3 DEF Occurs
  <2>5. /\ DOMAIN task' = Farm!Worker /\ task'[w] = Append(task[w], m)
        /\ \A v \in Farm!Worker : v # w => task'[v] = task[v]
    <3>1. DOMAIN task = Farm!Worker
      BY <1>2 DEF FarmTypes
    <3>2. task' = Farm!Put(task, w, m)
      BY <2>1, <2>3
    <3>. QED
      BY <3>1, <3>2, FarmPut
  <2>6. m \in 0 .. length /\ task[w] \in Seq(0 .. length)
    BY <1>2, FarmAssumption DEF FarmTypes
  <2>7. /\ task'[w] \in Seq(0 .. length)
        /\ \A t : Occurs(task'[w], t) = Occurs(task[w], t) + (IF m = t THEN 1 ELSE 0)
    BY <2>5, <2>6, QueueAppend
  <2>8. \A v \in Farm!Worker : task'[v] \in Seq(0 .. length)
    BY <1>2, <2>5, <2>7 DEF FarmTypes
  <2>9. FarmTypes'
    BY <1>1, <1>2, <1>3, <2>1, <2>2, <2>5, <2>8 DEF FarmTypes
  <2>10. Serving'
    <3>1. ASSUME NEW v \in Farm!Worker
          PROVE  Serves(task'[v], back'[v], worker'[v], v \in ready')
      <4>1. CASE v = w
        <5>1. (v \in ready') = FALSE
          BY <1>4, <2>1, <4>1
        <5>. QED
          BY <1>1, <1>3, <1>4, <2>5, <4>1, <5>1
      <4>2. CASE v # w
        BY <1>1, <1>2, <1>3, <2>1, <2>5, <4>2 DEF Serving
      <4>. QED
        BY <4>1, <4>2
    <3>. QED
      BY <1>1, <1>2, <1>8, <2>1, <3>1 DEF Serving
  <2>11. ASSUME NEW t \in 1 .. length
         PROVE  TaskOnce(t)'
    <3>1. Occurs(task[w], t) \in Nat /\ Occurs(result[w], t) \in Nat /\ Occurs(data', t) \in Nat
      <4>1. result[w] \in Seq(0 .. length)
        BY <1>2 DEF FarmTypes
      <4>2. Occurs(data', t) \in Nat
        BY <2>2, AmongType DEF Occurs
      <4>. QED
        BY <2>6, <4>1, <4>2, QueueCounts
    <3>2. InFarmOf(t)' = InFarmOf(t) + (Occurs(task'[w], t) + Occurs(result'[w], t))
                           - (Occurs(task[w], t) + Occurs(result[w], t))
      <4>1. \A v \in Farm!Worker : v # w => task'[v] = task[v] /\ result'[v] = result[v]
        BY <1>1, <2>5
      <4>. QED
        BY <1>2, <2>9, <4>1, FarmMove
    <3>3. InFarmOf(t)' = InFarmOf(t) + (IF m = t THEN 1 ELSE 0)
      <4>1. Occurs(task'[w], t) = Occurs(task[w], t) + (IF m = t THEN 1 ELSE 0)
        BY <2>7
      <4>2. result' = result /\ InFarmOf(t) \in Nat
        BY <1>1, <1>6
      <4>. QED
        BY <3>1, <3>2, <4>1, <4>2
    <3>4. Occurs(data, t) = Occurs(data', t) + (IF m = t THEN 1 ELSE 0)
      BY <2>4
    <3>5. TaskOnce(t)' <=> (IF t > sent THEN 1 ELSE 0) + Occurs(input, t) + Occurs(data', t)
                             + InFarmOf(t)' + sum[t] = 1
      BY <1>7
    <3>6. /\ Occurs(data, t) \in Nat /\ InFarmOf(t) \in Nat /\ sum[t] \in Nat
          /\ Occurs(input, t) \in Nat
          /\ (IF t > sent THEN 1 ELSE 0) + Occurs(input, t) + Occurs(data, t) + InFarmOf(t) + sum[t] = 1
      BY <1>6
    <3>. QED
      BY <3>1, <3>3, <3>4, <3>5, <3>6
  <2>. QED
    BY <1>5, <2>9, <2>10, <2>11 DEF FarmParts
<1>9. CASE data = <<>>
  <2>1. /\ ready' = ready \cup {w} /\ nready' = nready + 1 /\ data' = data
        /\ \/ /\ eos_received /\ nready' = nworkers
              /\ emitter' = "ended" /\ task' = Farm!Broadcast(task)
           \/ UNCHANGED <<emitter, task>>
    BY <1>9 DEF Farm!EmitterReady, Farm!AllBack
  <2>2. ready' \in SUBSET Farm!Worker /\ nready' = Cardinality(ready')
    BY <1>2, <1>4, <2>1, FlagsUp DEF FarmTypes
  <2>3. ASSUME NEW v \in Farm!Worker
        PROVE  Serves(task[v], back'[v], worker'[v], v \in ready')
    <3>1. CASE v = w
      <4>1. (v \in ready') = TRUE
        BY <2>1, <3>1
      <4>. QED
        BY <1>1, <1>3, <1>4, <3>1, <4>1
    <3>2. CASE v # w
      <4>1. (v \in ready') = (v \in ready)
        BY <2>1, <3>2
      <4>. QED
        BY <1>1, <1>2, <1>3, <3>2, <4>1 DEF Serving
    <3>. QED
      BY <3>1, <3>2
  <2>4. CASE UNCHANGED <<emitter, task>>
    <3>1. FarmTypes'
      BY <1>1, <1>2, <1>3, <2>1, <2>2, <2>4 DEF FarmTypes
    <3>2. Serving'
      BY <1>1, <1>9, <2>1, <2>3, <2>4 DEF Serving
    <3>3. ASSUME NEW t \in 1 .. length
          PROVE  TaskOnce(t)'
      <4>1. InFarmOf(t)' = InFarmOf(t) /\ Occurs(data', t) = Occurs(data, t)
        BY <1>1, <2>1, <2>4 DEF InFarmOf
      <4>. QED
        BY <1>6, <1>7, <4>1
    <3>. QED
      BY <1>5, <3>1, <3>2, <3>3 DEF FarmParts
  <2>5. CASE eos_received /\ nready' = nworkers /\ task' = Farm!Broadcast(task)
    <3>1. ready' = Farm!Worker
      BY <2>2, <2>5, FarmWorkers, FS_Subset
    <3>2. DOMAIN task' = Farm!Worker /\ \A v \in Farm!Worker : task'[v] = Append(task[v], 0)
      BY <2>5, FarmQueues DEF Farm!Broadcast, Farm!EOS
    <3>3. 0 \in 0 .. length /\ \A v \in Farm!Worker : task[v] \in Seq(0 .. length)
      BY <1>2, FarmAssumption DEF FarmTypes
    <3>4. \A v \in Farm!Worker : task'[v] \in Seq(0 .. length)
      BY <3>2, <3>3, QueueAppend
    <3>5. FarmTypes'
      BY <1>1, <1>2, <1>3, <2>1, <2>2, <3>2, <3>4 DEF FarmTypes
    <3>6. Finishing'
      <4>1. ASSUME NEW v \in Farm!Worker
            PROVE  Told(task'[v], back'[v], worker'[v])
        <5>1. (v \in ready') = TRUE
          BY <3>1
        <5>2. Serves(task[v], back'[v], worker'[v], TRUE)
          BY <2>3, <5>1
        <5>. QED
          BY <3>2, <5>2, ServesEOS
      <4>2. sent > length /\ input = <<>>
        BY <2>5 DEF FarmParts, SourceEnd
      <4>. QED
        BY <1>1, <1>9, <2>1, <3>1, <4>1, <4>2 DEF Finishing
    <3>7. ASSUME NEW t \in 1 .. length
          PROVE  TaskOnce(t)'
      <4>1. InFarmOf(t)' = InFarmOf(t) /\ Occurs(data', t) = Occurs(data, t)
        <5>1. result' = result /\ data' = data
          BY <1>1, <2>1
        <5>2. SumOver(OnItsWay(task', result, t), Farm!Worker)
                = SumOver(OnItsWay(task, result, t), Farm!Worker)
          BY <3>2, <3>3, WayBroadcast
        <5>. QED
          BY <5>1, <5>2 DEF InFarmOf
      <4>. QED
        BY <1>6, <1>7, <4>1
    <3>. QED
      BY <1>5, <3>5, <3>6, <3>7 DEF FarmParts
  <2>. QED
    BY <2>1, <2>4, <2>5
<1>. QED
  BY <1>8, <1>9

(* The source has ended: if everything has been answered, EOS is broadcast. *)
LEMMA EmitterEOSStep ==
  ASSUME FarmParts, Farm!EmitterEOS
  PROVE  FarmParts'
<1>1. /\ emitter = "running" /\ input # <<>> /\ Head(input) = 0 /\ input' = Tail(input)
      /\ eos_received' = TRUE
      /\ task' = IF nready = nworkers /\ data = <<>> THEN Farm!Broadcast(task) ELSE task
      /\ UNCHANGED <<sent, ready, nready, last, data, emitter, back, result, worker,
                     sum, sinkEOS, sink>>
  BY DEF Farm!EmitterEOS, Farm!sinkVars, Farm!EOS, Farm!AllBack
<1>2. FarmTypes /\ Serving
  BY <1>1 DEF FarmParts, Finishing
<1>3. /\ input' = <<>> /\ input' \in Seq(0 .. length) /\ sent > length
      /\ \A t : Occurs(input, t) = Occurs(input', t) + (IF 0 = t THEN 1 ELSE 0)
  BY <1>1, <1>2, InputTail DEF FarmParts
<1>4. SourceEnd' /\ ResultsEnd' /\ (sink = "ended" => sinkEOS = Farm!Worker)'
  <2>1. \A k \in DOMAIN input' : FALSE
    BY <1>3
  <2>. QED
    BY <1>1, <1>3, <2>1 DEF FarmParts, SourceEnd, ResultsEnd
<1>5. 0 \in 0 .. length /\ \A v \in Farm!Worker : task[v] \in Seq(0 .. length)
  BY <1>2, FarmAssumption DEF FarmTypes
<1>6. ASSUME NEW t \in 1 .. length, InFarmOf(t)' = InFarmOf(t)
      PROVE  TaskOnce(t)'
  <2>1. /\ Occurs(data, t) \in Nat /\ InFarmOf(t) \in Nat /\ sum[t] \in Nat
        /\ Occurs(input, t) \in Nat /\ t # 0 /\ TaskOnce(t)
    BY <1>2, FarmNumbers DEF FarmParts
  <2>2. Occurs(input', t) \in Nat
    BY <1>3, QueueCounts
  <2>3. Occurs(input, t) = Occurs(input', t) + (IF 0 = t THEN 1 ELSE 0)
    BY <1>3
  <2>4. Occurs(input, t) = Occurs(input', t)
    BY <2>1, <2>2, <2>3
  <2>. QED
    BY <1>1, <1>6, <2>1, <2>4 DEF TaskOnce
<1>7. CASE task' = task
  <2>1. FarmTypes'
    BY <1>1, <1>2, <1>3, <1>7 DEF FarmTypes
  <2>2. Serving'
    BY <1>1, <1>2, <1>7 DEF Serving
  <2>3. \A t \in 1 .. length : InFarmOf(t)' = InFarmOf(t)
    BY <1>1, <1>7 DEF InFarmOf
  <2>. QED
    BY <1>4, <1>6, <2>1, <2>2, <2>3 DEF FarmParts
<1>8. CASE nready = nworkers /\ data = <<>> /\ task' = Farm!Broadcast(task)
  <2>1. ready = Farm!Worker
    BY <1>2, <1>8, FlagsUp
  <2>2. DOMAIN task' = Farm!Worker /\ \A v \in Farm!Worker : task'[v] = Append(task[v], 0)
    BY <1>8, FarmQueues DEF Farm!Broadcast, Farm!EOS
  <2>3. \A v \in Farm!Worker : task'[v] \in Seq(0 .. length)
    BY <1>5, <2>2, QueueAppend
  <2>4. FarmTypes'
    BY <1>1, <1>2, <1>3, <2>2, <2>3 DEF FarmTypes
  <2>5. Finishing'
    <3>1. ASSUME NEW v \in Farm!Worker
          PROVE  Told(task'[v], back[v], worker[v])
      <4>1. (v \in ready) = TRUE
        BY <2>1
      <4>2. Serves(task[v], back[v], worker[v], TRUE)
        BY <1>2, <4>1 DEF Serving
      <4>. QED
        BY <2>2, <4>2, ServesEOS
    <3>. QED
      BY <1>1, <1>3, <1>8, <2>1, <3>1 DEF Finishing
  <2>6. ASSUME NEW t \in 1 .. length
        PROVE  InFarmOf(t)' = InFarmOf(t)
    <3>1. result' = result
      BY <1>1
    <3>2. SumOver(OnItsWay(task', result, t), Farm!Worker)
            = SumOver(OnItsWay(task, result, t), Farm!Worker)
      BY <1>5, <2>2, WayBroadcast
    <3>. QED
      BY <3>1, <3>2 DEF InFarmOf
  <2>. QED
    BY <1>4, <1>6, <2>4, <2>5, <2>6 DEF FarmParts
<1>. QED
  BY <1>1, <1>7, <1>8

(* Every input of the emitter has ended.                                    *)
LEMMA EmitterEndsStep ==
  ASSUME FarmParts, Farm!EmitterEnds
  PROVE  FarmParts'
<1>1. /\ emitter' = "ended" /\ (\A w \in Farm!Worker : back[w] = <<0>>)
      /\ back' = [w \in Farm!Worker |-> <<>>]
      /\ UNCHANGED <<sent, input, ready, nready, last, data, eos_received, task, result,
                     worker, sum, sinkEOS, sink>>
  BY DEF Farm!EmitterEnds, Farm!emitterVars, Farm!sinkVars, Farm!EOS
<1>2. Finishing
  <2>1. 0 \in Farm!Worker /\ <<0>> # <<>> /\ <<0>> # <<1>>
    BY FarmWorkers
  <2>. QED
    BY <1>1, <2>1 DEF FarmParts, Serving, Serves
<1>3. FarmTypes' /\ SourceEnd' /\ ResultsEnd' /\ (sink = "ended" => sinkEOS = Farm!Worker)'
  BY <1>1 DEF FarmParts, FarmTypes, SourceEnd, ResultsEnd
<1>4. Finishing'
  <2>1. ASSUME NEW w \in Farm!Worker
        PROVE  Told(task[w], <<>>, worker[w])
    <3>1. Told(task[w], <<0>>, worker[w]) /\ <<0>> # <<>>
      BY <1>1, <1>2 DEF Finishing
    <3>. QED
      BY <3>1 DEF Told
  <2>2. \A w \in Farm!Worker : back'[w] = <<>>
    BY <1>1
  <2>. QED
    BY <1>1, <1>2, <2>1, <2>2 DEF Finishing
<1>5. ASSUME NEW t \in 1 .. length
      PROVE  TaskOnce(t)'
  BY <1>1 DEF FarmParts, TaskOnce, InFarmOf
<1>. QED
  BY <1>3, <1>4, <1>5 DEF FarmParts

(* A worker takes a task: nothing moves yet.                                *)
LEMMA ComputeStep ==
  ASSUME FarmParts, NEW w \in Farm!Worker, Farm!Compute(w)
  PROVE  FarmParts'
<1>1. /\ worker[w] = "idle" /\ task[w] # <<>> /\ Head(task[w]) # 0
      /\ worker' = [worker EXCEPT ![w] = "busy"]
      /\ UNCHANGED <<sent, input, ready, nready, last, data, eos_received, emitter, task, back,
                     result, sum, sinkEOS, sink>>
  BY DEF Farm!Compute, Farm!emitterVars, Farm!sinkVars, Farm!EOS
<1>2. FarmTypes /\ Serving
  <2>1. Finishing => Head(task[w]) = 0
    BY <1>1, ToldWork DEF Finishing
  <2>. QED
    BY <1>1, <2>1 DEF FarmParts
<1>3. /\ DOMAIN worker' = Farm!Worker /\ worker'[w] = "busy"
      /\ \A v \in Farm!Worker : v # w => worker'[v] = worker[v]
  BY <1>1, <1>2 DEF FarmTypes
<1>4. FarmTypes' /\ SourceEnd' /\ (sink = "ended" => sinkEOS = Farm!Worker)'
  BY <1>1, <1>3 DEF FarmParts, FarmTypes, SourceEnd
<1>5. Serving'
  <2>1. Serves(task[w], back[w], "busy", w \in ready)
    <3>1. Serves(task[w], back[w], worker[w], w \in ready) /\ (w \in ready) \in BOOLEAN
      BY <1>2 DEF Serving
    <3>. QED
      BY <1>1, <3>1, ServesWork
  <2>2. \A v \in Farm!Worker : Serves(task[v], back[v], worker'[v], v \in ready)
    BY <1>2, <1>3, <2>1 DEF Serving
  <2>. QED
    BY <1>1, <1>2, <2>2 DEF Serving
<1>6. ResultsEnd'
  <2>1. ASSUME NEW v \in Farm!Worker
        PROVE  Delivers(result[v], worker'[v], v \in sinkEOS)
    <3>1. Delivers(result[v], worker[v], v \in sinkEOS)
      BY DEF FarmParts, ResultsEnd
    <3>. QED
      BY <1>1, <1>3, <3>1 DEF Delivers
  <2>. QED
    BY <1>1, <2>1 DEF ResultsEnd
<1>7. ASSUME NEW t \in 1 .. length
      PROVE  TaskOnce(t)'
  BY <1>1 DEF FarmParts, TaskOnce, InFarmOf
<1>. QED
  BY <1>4, <1>5, <1>6, <1>7 DEF FarmParts

(* The worker sends its ready flag before the result.                       *)
LEMMA SendFlagStep ==
  ASSUME FarmParts, NEW w \in Farm!Worker, Farm!SendFlag(w)
  PROVE  FarmParts'
<1>1. /\ worker[w] = "busy" /\ back' = Farm!Put(back, w, 1)
      /\ worker' = [worker EXCEPT ![w] = "notified"]
      /\ UNCHANGED <<sent, input, ready, nready, last, data, eos_received, emitter, task,
                     result, sum, sinkEOS, sink>>
  BY DEF Farm!SendFlag, Farm!emitterVars, Farm!sinkVars, Farm!Flag
<1>2. FarmTypes /\ Serving
  BY <1>1, ToldWork DEF FarmParts, Finishing
<1>3. /\ DOMAIN worker' = Farm!Worker /\ worker'[w] = "notified"
      /\ \A v \in Farm!Worker : v # w => worker'[v] = worker[v]
  BY <1>1, <1>2 DEF FarmTypes
<1>4. /\ DOMAIN back' = Farm!Worker /\ back'[w] = Append(back[w], 1)
      /\ \A v \in Farm!Worker : v # w => back'[v] = back[v]
  <2>1. DOMAIN back = Farm!Worker
    BY <1>2 DEF FarmTypes
  <2>. QED
    BY <1>1, <2>1, FarmPut
<1>5. FarmTypes' /\ SourceEnd' /\ (sink = "ended" => sinkEOS = Farm!Worker)'
  BY <1>1, <1>3, <1>4 DEF FarmParts, FarmTypes, SourceEnd
<1>6. Serving'
  <2>1. Serves(task[w], back'[w], "notified", w \in ready)
    <3>1. Serves(task[w], back[w], worker[w], w \in ready) /\ (w \in ready) \in BOOLEAN
      BY <1>2 DEF Serving
    <3>. QED
      BY <1>1, <1>4, <3>1, ServesWork
  <2>2. \A v \in Farm!Worker : Serves(task[v], back'[v], worker'[v], v \in ready)
    BY <1>2, <1>3, <1>4, <2>1 DEF Serving
  <2>. QED
    BY <1>1, <1>2, <2>2 DEF Serving
<1>7. ResultsEnd'
  <2>1. ASSUME NEW v \in Farm!Worker
        PROVE  Delivers(result[v], worker'[v], v \in sinkEOS)
    <3>1. Delivers(result[v], worker[v], v \in sinkEOS)
      BY DEF FarmParts, ResultsEnd
    <3>. QED
      BY <1>1, <1>3, <3>1 DEF Delivers
  <2>. QED
    BY <1>1, <2>1 DEF ResultsEnd
<1>8. ASSUME NEW t \in 1 .. length
      PROVE  TaskOnce(t)'
  BY <1>1 DEF FarmParts, TaskOnce, InFarmOf
<1>. QED
  BY <1>5, <1>6, <1>7, <1>8 DEF FarmParts

(* The result follows the flag.                                             *)
LEMMA SendResultStep ==
  ASSUME FarmParts, NEW w \in Farm!Worker, Farm!SendResult(w)
  PROVE  FarmParts'
<1>1. /\ worker[w] = "notified" /\ result' = Farm!Put(result, w, Head(task[w]))
      /\ task' = Farm!Get(task, w) /\ worker' = [worker EXCEPT ![w] = "idle"]
      /\ UNCHANGED <<sent, input, ready, nready, last, data, eos_received, emitter, back,
                     sum, sinkEOS, sink>>
  BY DEF Farm!SendResult, Farm!emitterVars, Farm!sinkVars
<1>2. FarmTypes
  BY DEF FarmParts
<1>3. /\ DOMAIN worker' = Farm!Worker /\ worker'[w] = "idle"
      /\ \A v \in Farm!Worker : v # w => worker'[v] = worker[v]
  BY <1>1, <1>2 DEF FarmTypes
<1>4. /\ task[w] # <<>> /\ Head(task[w]) \in 1 .. length
      /\ Serving => Serves(Tail(task[w]), back[w], "idle", w \in ready)
      /\ Finishing => Told(Tail(task[w]), back[w], "idle")
  <2>1. CASE Serving
    <3>1. Serves(task[w], back[w], worker[w], w \in ready) /\ (w \in ready) \in BOOLEAN
      BY <2>1 DEF Serving
    <3>2. /\ task[w] # <<>> /\ Head(task[w]) \in 1 .. length
          /\ Serves(Tail(task[w]), back[w], "idle", w \in ready)
      BY <1>1, <3>1, ServesWork
    <3>3. Finishing => Told(Tail(task[w]), back[w], "idle")
      BY <1>1, ToldWork DEF Finishing
    <3>. QED
      BY <3>2, <3>3
  <2>2. CASE Finishing
    <3>1. Told(task[w], back[w], worker[w])
      BY <2>2 DEF Finishing
    <3>2. /\ task[w] # <<>> /\ Head(task[w]) \in 1 .. length
          /\ Told(Tail(task[w]), back[w], "idle")
      BY <1>1, <3>1, ToldWork
    <3>3. ASSUME Serving
          PROVE  Serves(Tail(task[w]), back[w], "idle", w \in ready)
      <4>1. Serves(task[w], back[w], worker[w], w \in ready) /\ (w \in ready) \in BOOLEAN
        BY <3>3 DEF Serving
      <4>. QED
        BY <1>1, <4>1, ServesWork
    <3>. QED
      BY <3>2, <3>3
  <2>. QED
    BY <2>1, <2>2 DEF FarmParts
<1>5. PICK m \in 1 .. length : m = Head(task[w])
  BY <1>4
<1>6. /\ DOMAIN task' = Farm!Worker /\ task'[w] = Tail(task[w])
      /\ \A v \in Farm!Worker : v # w => task'[v] = task[v]
  <2>1. DOMAIN task = Farm!Worker
    BY <1>2 DEF FarmTypes
  <2>. QED
    BY <1>1, <2>1, FarmGet
<1>7. /\ DOMAIN result' = Farm!Worker /\ result'[w] = Append(result[w], m)
      /\ \A v \in Farm!Worker : v # w => result'[v] = result[v]
  <2>1. DOMAIN result = Farm!Worker /\ result' = Farm!Put(result, w, m)
    BY <1>1, <1>2, <1>5 DEF FarmTypes
  <2>. QED
    BY <2>1, FarmPut
<1>8. m \in 0 .. length /\ task[w] \in Seq(0 .. length) /\ result[w] \in Seq(0 .. length)
  BY <1>2, FarmAssumption DEF FarmTypes
<1>9. /\ task'[w] \in Seq(0 .. length) /\ result'[w] \in Seq(0 .. length)
      /\ \A t : /\ Occurs(task[w], t) = Occurs(task'[w], t) + (IF m = t THEN 1 ELSE 0)
                /\ Occurs(result'[w], t) = Occurs(result[w], t) + (IF m = t THEN 1 ELSE 0)
  <2>1. /\ Tail(task[w]) \in Seq(0 .. length)
        /\ \A t : Occurs(task[w], t) = Occurs(Tail(task[w]), t) + (IF Head(task[w]) = t THEN 1 ELSE 0)
    BY <1>4, <1>8, QueueTail
  <2>2. /\ Append(result[w], m) \in Seq(0 .. length)
        /\ \A t : Occurs(Append(result[w], m), t) = Occurs(result[w], t) + (IF m = t THEN 1 ELSE 0)
    BY <1>8, QueueAppend
  <2>. QED
    BY <1>5, <1>6, <1>7, <2>1, <2>2
<1>10. FarmTypes'
  <2>1. \A v \in Farm!Worker : task'[v] \in Seq(0 .. length) /\ result'[v] \in Seq(0 .. length)
    BY <1>2, <1>6, <1>7, <1>9 DEF FarmTypes
  <2>. QED
    BY <1>1, <1>2, <1>3, <1>6, <1>7, <2>1 DEF FarmTypes
<1>11. SourceEnd' /\ (sink = "ended" => sinkEOS = Farm!Worker)'
  BY <1>1 DEF FarmParts, SourceEnd
<1>12. Serving' \/ Finishing'
  <2>1. CASE Serving
    <3>1. \A v \in Farm!Worker : Serves(task'[v], back[v], worker'[v], v \in ready)
      BY <1>3, <1>4, <1>6, <2>1 DEF Serving
    <3>. QED
      BY <1>1, <2>1, <3>1 DEF Serving
  <2>2. CASE Finishing
    <3>1. \A v \in Farm!Worker : Told(task'[v], back[v], worker'[v])
      BY <1>3, <1>4, <1>6, <2>2 DEF Finishing
    <3>. QED
      BY <1>1, <2>2, <3>1 DEF Finishing
  <2>. QED
    BY <2>1, <2>2 DEF FarmParts
<1>13. ResultsEnd'
  <2>1. /\ ~(w \in sinkEOS) /\ Delivers(Append(result[w], m), "idle", FALSE)
    <3>1. Delivers(result[w], worker[w], w \in sinkEOS) /\ (w \in sinkEOS) \in BOOLEAN
      BY DEF FarmParts, ResultsEnd
    <3>. QED
      BY <1>1, <1>8, <3>1, DeliversMore
  <2>2. ASSUME NEW v \in Farm!Worker
        PROVE  Delivers(result'[v], worker'[v], v \in sinkEOS)
    <3>1. CASE v = w
      <4>1. (v \in sinkEOS) = FALSE
        BY <2>1, <3>1
      <4>. QED
        BY <1>3, <1>7, <2>1, <3>1, <4>1
    <3>2. CASE v # w
      BY <1>3, <1>7, <3>2 DEF FarmParts, ResultsEnd
    <3>. QED
      BY <3>1, <3>2
  <2>. QED
    BY <1>1, <2>2 DEF ResultsEnd
<1>14. ASSUME NEW t \in 1 .. length
       PROVE  TaskOnce(t)'
  <2>1. InFarmOf(t)' = InFarmOf(t)
    <3>1. /\ Occurs(task[w], t) \in Nat /\ Occurs(result[w], t) \in Nat
          /\ Occurs(task'[w], t) \in Nat /\ Occurs(result'[w], t) \in Nat
          /\ InFarmOf(t) \in Nat /\ InFarmOf(t)' \in Nat
          /\ InFarmOf(t)' = InFarmOf(t) + (Occurs(task'[w], t) + Occurs(result'[w], t))
                                        - (Occurs(task[w], t) + Occurs(result[w], t))
      BY <1>2, <1>6, <1>7, <1>10, FarmMove
    <3>2. /\ Occurs(task[w], t) = Occurs(task'[w], t) + (IF m = t THEN 1 ELSE 0)
          /\ Occurs(result'[w], t) = Occurs(result[w], t) + (IF m = t THEN 1 ELSE 0)
      BY <1>9
    <3>. QED
      BY <3>1, <3>2
  <2>. QED
    BY <1>1, <2>1 DEF FarmParts, TaskOnce
<1>. QED
  BY <1>10, <1>11, <1>12, <1>13, <1>14 DEF FarmParts

(* EOS passes through the worker, to the emitter and to the sink.           *)
LEMMA FarmWorkerEndsStep ==
  ASSUME FarmParts, NEW w \in Farm!Worker, Farm!WorkerEnds(w)
  PROVE  FarmParts'
<1>1. /\ worker[w] = "idle" /\ task[w] # <<>> /\ Head(task[w]) = 0
      /\ task' = Farm!Get(task, w) /\ back' = Farm!Put(back, w, 0)
      /\ result' = Farm!Put(result, w, 0) /\ worker' = [worker EXCEPT ![w] = "ended"]
      /\ UNCHANGED <<sent, input, ready, nready, last, data, eos_received, emitter,
                     sum, sinkEOS, sink>>
  BY DEF Farm!WorkerEnds, Farm!emitterVars, Farm!sinkVars, Farm!EOS
<1>2. FarmTypes /\ Finishing
  <2>1. ASSUME Serving
        PROVE  FALSE
    <3>1. Serves(task[w], back[w], worker[w], w \in ready) /\ (w \in ready) \in BOOLEAN
      BY <2>1 DEF Serving
    <3>2. Head(task[w]) \in 1 .. length
      BY <1>1, <3>1, ServesWork
    <3>. QED
      BY <1>1, <3>2, FarmAssumption
  <2>. QED
    BY <2>1 DEF FarmParts
<1>3. /\ DOMAIN worker' = Farm!Worker /\ worker'[w] = "ended"
      /\ \A v \in Farm!Worker : v # w => worker'[v] = worker[v]
  BY <1>1, <1>2 DEF FarmTypes
<1>4. DOMAIN task = Farm!Worker /\ DOMAIN back = Farm!Worker /\ DOMAIN result = Farm!Worker
  BY <1>2 DEF FarmTypes
<1>5. /\ DOMAIN task' = Farm!Worker /\ task'[w] = Tail(task[w])
      /\ \A v \in Farm!Worker : v # w => task'[v] = task[v]
  BY <1>1, <1>4, FarmGet
<1>6. /\ DOMAIN back' = Farm!Worker /\ back'[w] = Append(back[w], 0)
      /\ \A v \in Farm!Worker : v # w => back'[v] = back[v]
  BY <1>1, <1>4, FarmPut
<1>7. /\ DOMAIN result' = Farm!Worker /\ result'[w] = Append(result[w], 0)
      /\ \A v \in Farm!Worker : v # w => result'[v] = result[v]
  BY <1>1, <1>4, FarmPut
<1>8. 0 \in 0 .. length /\ task[w] \in Seq(0 .. length) /\ result[w] \in Seq(0 .. length)
  BY <1>2, FarmAssumption DEF FarmTypes
<1>9. /\ task'[w] \in Seq(0 .. length) /\ result'[w] \in Seq(0 .. length)
      /\ \A t : /\ Occurs(task[w], t) = Occurs(task'[w], t) + (IF 0 = t THEN 1 ELSE 0)
                /\ Occurs(result'[w], t) = Occurs(result[w], t) + (IF 0 = t THEN 1 ELSE 0)
  <2>1. /\ Tail(task[w]) \in Seq(0 .. length)
        /\ \A t : Occurs(task[w], t) = Occurs(Tail(task[w]), t) + (IF Head(task[w]) = t THEN 1 ELSE 0)
    BY <1>1, <1>8, QueueTail
  <2>2. /\ Append(result[w], 0) \in Seq(0 .. length)
        /\ \A t : Occurs(Append(result[w], 0), t) = Occurs(result[w], t) + (IF 0 = t THEN 1 ELSE 0)
    BY <1>8, QueueAppend
  <2>. QED
    BY <1>1, <1>5, <1>7, <2>1, <2>2
<1>10. FarmTypes'
  <2>1. \A v \in Farm!Worker : task'[v] \in Seq(0 .. length) /\ result'[v] \in Seq(0 .. length)
    BY <1>2, <1>5, <1>7, <1>9 DEF FarmTypes
  <2>. QED
    BY <1>1, <1>2, <1>3, <1>5, <1>6, <1>7, <2>1 DEF FarmTypes
<1>11. SourceEnd' /\ (sink = "ended" => sinkEOS = Farm!Worker)'
  BY <1>1 DEF FarmParts, SourceEnd
<1>12. Finishing'
  <2>1. Told(Tail(task[w]), Append(back[w], 0), "ended")
    <3>1. Told(task[w], back[w], worker[w])
      BY <1>2 DEF Finishing
    <3>. QED
      BY <1>1, <3>1, ToldWork
  <2>2. \A v \in Farm!Worker : Told(task'[v], back'[v], worker'[v])
    BY <1>2, <1>3, <1>5, <1>6, <2>1 DEF Finishing
  <2>. QED
    BY <1>1, <1>2, <2>2 DEF Finishing
<1>13. ResultsEnd'
  <2>1. /\ ~(w \in sinkEOS) /\ Delivers(Append(result[w], 0), "ended", FALSE)
    <3>1. Delivers(result[w], worker[w], w \in sinkEOS) /\ (w \in sinkEOS) \in BOOLEAN
      BY DEF FarmParts, ResultsEnd
    <3>. QED
      BY <1>1, <1>8, <3>1, DeliversMore
  <2>2. ASSUME NEW v \in Farm!Worker
        PROVE  Delivers(result'[v], worker'[v], v \in sinkEOS)
    <3>1. CASE v = w
      <4>1. (v \in sinkEOS) = FALSE
        BY <2>1, <3>1
      <4>. QED
        BY <1>3, <1>7, <2>1, <3>1, <4>1
    <3>2. CASE v # w
      BY <1>3, <1>7, <3>2 DEF FarmParts, ResultsEnd
    <3>. QED
      BY <3>1, <3>2
  <2>. QED
    BY <1>1, <2>2 DEF ResultsEnd
<1>14. ASSUME NEW t \in 1 .. length
       PROVE  TaskOnce(t)'
  <2>1. InFarmOf(t)' = InFarmOf(t)
    <3>1. /\ Occurs(task[w], t) \in Nat /\ Occurs(result[w], t) \in Nat
          /\ Occurs(task'[w], t) \in Nat /\ Occurs(result'[w], t) \in Nat
          /\ InFarmOf(t) \in Nat /\ InFarmOf(t)' \in Nat
          /\ InFarmOf(t)' = InFarmOf(t) + (Occurs(task'[w], t) + Occurs(result'[w], t))
                                        - (Occurs(task[w], t) + Occurs(result[w], t))
      BY <1>2, <1>5, <1>7, <1>10, FarmMove
    <3>2. /\ Occurs(task[w], t) = Occurs(task'[w], t) + (IF 0 = t THEN 1 ELSE 0)
          /\ Occurs(result'[w], t) = Occurs(result[w], t) + (IF 0 = t THEN 1 ELSE 0)
      BY <1>9
    <3>. QED
      BY <3>1, <3>2
  <2>. QED
    BY <1>1, <2>1 DEF FarmParts, TaskOnce
<1>. QED
  BY <1>10, <1>11, <1>12, <1>13, <1>14 DEF FarmParts

(* The sink adds up a result not added before; or it is told that a worker  *)
(* has ended.                                                               *)
LEMMA SinkReceiveStep ==
  ASSUME FarmParts, NEW w \in Farm!Worker, Farm!SinkReceive(w)
  PROVE  /\ FarmParts' /\ sink = "running"
         /\ \/ sum' = sum
            \/ /\ sink' = "running"
               /\ \E t \in 1 .. length : sum[t] = 0 /\ sum' = [sum EXCEPT ![t] = 1]
<1>1. /\ sink = "running" /\ result[w] # <<>> /\ result' = Farm!Get(result, w)
      /\ Head(result[w]) = 0 => sinkEOS' = sinkEOS \cup {w} /\ sum' = sum
      /\ Head(result[w]) # 0 =>
           sum' = [sum EXCEPT ![Head(result[w])] = @ + 1] /\ sinkEOS' = sinkEOS
      /\ sink' = IF sinkEOS' = Farm!Worker THEN "ended" ELSE sink
      /\ UNCHANGED <<sent, input, ready, nready, last, data, eos_received, emitter, task, back,
                     worker>>
  BY DEF Farm!SinkReceive, Farm!emitterVars, Farm!EOS
<1>2. FarmTypes
  BY DEF FarmParts
<1>3. /\ DOMAIN result' = Farm!Worker /\ result'[w] = Tail(result[w])
      /\ \A v \in Farm!Worker : v # w => result'[v] = result[v]
  <2>1. DOMAIN result = Farm!Worker
    BY <1>2 DEF FarmTypes
  <2>. QED
    BY <1>1, <2>1, FarmGet
<1>4. result[w] \in Seq(0 .. length)
  BY <1>2 DEF FarmTypes
<1>5. /\ Head(result[w]) \in 0 .. length /\ result'[w] \in Seq(0 .. length)
      /\ \A t : Occurs(result[w], t) = Occurs(result'[w], t) + (IF Head(result[w]) = t THEN 1 ELSE 0)
  BY <1>1, <1>3, <1>4, QueueTail
<1>6. /\ ~(w \in sinkEOS) /\ Delivers(Tail(result[w]), worker[w], FALSE)
      /\ Head(result[w]) = 0 => Delivers(Tail(result[w]), worker[w], TRUE)
  <2>1. Delivers(result[w], worker[w], w \in sinkEOS) /\ (w \in sinkEOS) \in BOOLEAN
    BY DEF FarmParts, ResultsEnd
  <2>. QED
    BY <1>1, <1>4, <2>1, DeliversTail
<1>7. SourceEnd' /\ (Serving \/ Finishing)'
  BY <1>1 DEF FarmParts, SourceEnd, Serving, Finishing
<1>8. ResultsEnd'
  <2>1. ASSUME NEW v \in Farm!Worker
        PROVE  Delivers(result'[v], worker[v], v \in sinkEOS')
    <3>1. CASE v = w /\ Head(result[w]) = 0
      <4>1. (v \in sinkEOS') = TRUE
        BY <1>1, <3>1
      <4>. QED
        BY <1>3, <1>6, <3>1, <4>1
    <3>2. CASE v = w /\ Head(result[w]) # 0
      <4>1. (v \in sinkEOS') = FALSE
        BY <1>1, <1>6, <3>2
      <4>. QED
        BY <1>3, <1>6, <3>2, <4>1
    <3>3. CASE v # w
      <4>1. (v \in sinkEOS') = (v \in sinkEOS)
        BY <1>1, <3>3
      <4>2. Delivers(result[v], worker[v], v \in sinkEOS)
        BY DEF FarmParts, ResultsEnd
      <4>. QED
        BY <1>3, <3>3, <4>1, <4>2
    <3>. QED
      BY <3>1, <3>2, <3>3
  <2>. QED
    BY <1>1, <2>1 DEF ResultsEnd
<1>9. (sink = "ended" => sinkEOS = Farm!Worker)'
  BY <1>1
<1>10. sum' \in [1 .. length -> Nat]
  BY <1>1, <1>2 DEF FarmTypes
<1>11. FarmTypes'
  <2>1. \A v \in Farm!Worker : result'[v] \in Seq(0 .. length)
    BY <1>2, <1>3, <1>5 DEF FarmTypes
  <2>. QED
    BY <1>1, <1>2, <1>3, <1>10, <2>1 DEF FarmTypes
<1>12. ASSUME NEW t \in 1 .. length
       PROVE  /\ InFarmOf(t)' + (IF Head(result[w]) = t THEN 1 ELSE 0) = InFarmOf(t)
              /\ InFarmOf(t) \in Nat /\ InFarmOf(t)' \in Nat
  <2>1. /\ Occurs(task[w], t) \in Nat /\ Occurs(result[w], t) \in Nat
        /\ Occurs(task'[w], t) \in Nat /\ Occurs(result'[w], t) \in Nat
        /\ InFarmOf(t) \in Nat /\ InFarmOf(t)' \in Nat
        /\ InFarmOf(t)' = InFarmOf(t) + (Occurs(task'[w], t) + Occurs(result'[w], t))
                                      - (Occurs(task[w], t) + Occurs(result[w], t))
    BY <1>1, <1>2, <1>3, <1>11, FarmMove
  <2>2. task'[w] = task[w]
    BY <1>1
  <2>3. Occurs(result[w], t) = Occurs(result'[w], t) + (IF Head(result[w]) = t THEN 1 ELSE 0)
    BY <1>5
  <2>. QED
    BY <2>1, <2>2, <2>3
<1>13. ASSUME NEW t \in 1 .. length
       PROVE  /\ sum'[t] = sum[t] + (IF Head(result[w]) = t THEN 1 ELSE 0)
              /\ Head(result[w]) = t => sum[t] = 0
              /\ TaskOnce(t)'
  <2>1. /\ Occurs(data, t) \in Nat /\ InFarmOf(t) \in Nat /\ sum[t] \in Nat
        /\ Occurs(input, t) \in Nat /\ t # 0 /\ TaskOnce(t)
    BY <1>2, FarmNumbers DEF FarmParts
  <2>2. sum'[t] = sum[t] + (IF Head(result[w]) = t THEN 1 ELSE 0)
    <3>1. DOMAIN sum = 1 .. length
      BY <1>2 DEF FarmTypes
    <3>2. CASE Head(result[w]) = 0
      BY <1>1, <2>1, <3>2
    <3>3. CASE Head(result[w]) # 0
      <4>1. sum' = [sum EXCEPT ![Head(result[w])] = sum[Head(result[w])] + 1]
        BY <1>1, <3>3
      <4>. QED
        BY <2>1, <3>1, <4>1
    <3>. QED
      BY <3>2, <3>3
  <2>3. (IF t > sent THEN 1 ELSE 0) + Occurs(input, t) + Occurs(data, t) + InFarmOf(t) + sum[t] = 1
    BY <2>1 DEF TaskOnce
  <2>4. TaskOnce(t)' <=> (IF t > sent THEN 1 ELSE 0) + Occurs(input, t) + Occurs(data, t)
                           + InFarmOf(t)' + sum'[t] = 1
    BY <1>1 DEF TaskOnce
  <2>5. /\ InFarmOf(t)' + (IF Head(result[w]) = t THEN 1 ELSE 0) = InFarmOf(t)
        /\ InFarmOf(t)' \in Nat
    BY <1>12
  <2>6. (IF t > sent THEN 1 ELSE 0) \in Nat /\ (IF Head(result[w]) = t THEN 1 ELSE 0) \in Nat
    OBVIOUS
  <2>7. InFarmOf(t)' + sum'[t] = InFarmOf(t) + sum[t]
    BY <2>1, <2>2, <2>5, <2>6
  <2>8. TaskOnce(t)'
    BY <2>1, <2>2, <2>3, <2>4, <2>5, <2>6, <2>7
  <2>9. Head(result[w]) = t => sum[t] = 0
    <3>1. Head(result[w]) = t => InFarmOf(t)' + 1 = InFarmOf(t)
      BY <2>5
    <3>2. \A a, b, c, d, e, x \in Nat : a + b + c + d + e = 1 /\ x + 1 = d => e = 0
      OBVIOUS
    <3>3. Head(result[w]) = t => sum[t] = 0
      BY <2>1, <2>3, <2>5, <2>6, <3>1, <3>2
    <3>. QED
      BY <3>3
  <2>. QED
    BY <2>2, <2>8, <2>9
<1>14. \/ sum' = sum
       \/ /\ sink' = "running"
          /\ \E t \in 1 .. length : sum[t] = 0 /\ sum' = [sum EXCEPT ![t] = 1]
  <2>1. SUFFICES ASSUME Head(result[w]) # 0
                 PROVE  /\ sink' = "running"
                        /\ \E t \in 1 .. length : sum[t] = 0 /\ sum' = [sum EXCEPT ![t] = 1]
    BY <1>1
  <2>2. PICK t \in 1 .. length : t = Head(result[w])
    BY <1>5, <2>1, FarmAssumption
  <2>3. sum[t] = 0 /\ sum' = [sum EXCEPT ![t] = 1]
    BY <1>1, <1>13, <2>1, <2>2
  <2>4. sink' = "running"
    BY <1>1, <1>6, <2>1
  <2>. QED
    BY <2>3, <2>4
<1>. QED
  BY <1>1, <1>7, <1>8, <1>9, <1>11, <1>13, <1>14 DEF FarmParts

(* The farm starts with the invariant.                                      *)
LEMMA FarmStart ==
  ASSUME Farm!Init
  PROVE  FarmParts
<1>1. /\ sent = 0 /\ input = <<>> /\ ready = Farm!Worker /\ nready = nworkers /\ last = nworkers
      /\ data = <<>> /\ eos_received = FALSE /\ emitter = "running"
      /\ task = [w \in Farm!Worker |-> <<>>] /\ back = [w \in Farm!Worker |-> <<>>]
      /\ result = [w \in Farm!Worker |-> <<>>] /\ worker = [w \in Farm!Worker |-> "idle"]
      /\ sum = [t \in 1 .. length |-> 0] /\ sinkEOS = {} /\ sink = "running"
  BY DEF Farm!Init, Farm!Task
<1>2. <<>> \in Seq(0 .. length) /\ <<>> \in Seq(1 .. length) /\ Len(<<>>) = 0
      /\ length \in Nat /\ (\A k \in DOMAIN <<>> : FALSE)
  BY FarmAssumption
<1>3. \A w \in Farm!Worker : /\ task[w] = <<>> /\ back[w] = <<>> /\ result[w] = <<>>
                             /\ worker[w] = "idle" /\ (w \in ready) = TRUE
                             /\ (w \in sinkEOS) = FALSE
  BY <1>1
<1>4. FarmTypes
  <2>1. nready = Cardinality(ready) /\ last \in Nat
    BY <1>1, FarmWorkers
  <2>2. sum \in [1 .. length -> Nat]
    BY <1>1
  <2>3. sent \in 0 .. length + 1
    BY <1>1, <1>2
  <2>. QED
    BY <1>1, <1>2, <1>3, <2>1, <2>2, <2>3 DEF FarmTypes
<1>5. SourceEnd
  BY <1>1, <1>2 DEF SourceEnd
<1>6. Serving
  <2>1. Serves(<<>>, <<>>, "idle", TRUE)
    BY <1>2 DEF Serves
  <2>. QED
    BY <1>1, <1>3, <2>1 DEF Serving
<1>7. ResultsEnd /\ sink # "ended"
  <2>1. Delivers(<<>>, "idle", FALSE)
    BY <1>2 DEF Delivers
  <2>. QED
    BY <1>1, <1>3, <2>1 DEF ResultsEnd
<1>8. ASSUME NEW t \in 1 .. length
      PROVE  TaskOnce(t)
  <2>1. Occurs(<<>>, t) = 0
    BY <1>2, QueueCounts
  <2>2. \A w \in Farm!Worker : OnItsWay(task, result, t)[w] = 0
    BY <1>3, <2>1 DEF OnItsWay
  <2>3. InFarmOf(t) = 0
    BY <2>2, FarmWorkers, SumZero DEF InFarmOf
  <2>4. sum[t] = 0 /\ t > sent
    BY <1>1, FarmAssumption
  <2>. QED
    BY <1>1, <2>1, <2>3, <2>4 DEF TaskOnce
<1>. QED
  BY <1>4, <1>5, <1>6, <1>7, <1>8 DEF FarmParts

(* When the sink has ended, every worker has, and every task is added up.   *)
LEMMA SumAtTheEnd ==
  FarmParts /\ sink = "ended" => \A t \in 1 .. length : sum[t] = 1
<1>0. SUFFICES ASSUME FarmParts, sink = "ended", NEW t \in 1 .. length
               PROVE  sum[t] = 1
  OBVIOUS
<1>1. FarmTypes /\ ResultsEnd /\ TaskOnce(t) /\ sinkEOS = Farm!Worker
  BY <1>0 DEF FarmParts
<1>2. \A w \in Farm!Worker : worker[w] = "ended" /\ result[w] = <<>>
  BY <1>1 DEF ResultsEnd, Delivers
<1>3. Finishing
  <2>1. Serving => worker[0] # "ended"
    BY FarmWorkers DEF Serving, Serves
  <2>. QED
    BY <1>0, <1>2, <2>1, FarmWorkers DEF FarmParts
<1>4. \A w \in Farm!Worker : task[w] = <<>>
  BY <1>2, <1>3 DEF Finishing, Told
<1>5. Occurs(<<>>, t) = 0
  <2>1. <<>> \in Seq(0 .. length)
    OBVIOUS
  <2>. QED
    BY <2>1, QueueCounts
<1>6. \A w \in Farm!Worker : OnItsWay(task, result, t)[w] = 0
  BY <1>2, <1>4, <1>5 DEF OnItsWay
<1>7. InFarmOf(t) = 0
  BY <1>6, FarmWorkers, SumZero DEF InFarmOf
<1>8. Occurs(input, t) = 0 /\ Occurs(data, t) = 0 /\ ~(t > sent)
  <2>1. sent > length /\ sent \in Nat /\ t <= length /\ length \in Nat /\ t \in Nat
    BY <1>1, <1>3, FarmAssumption DEF Finishing, FarmTypes
  <2>. QED
    BY <1>3, <1>5, <2>1 DEF Finishing
<1>9. sum[t] \in Nat
  BY <1>1 DEF FarmTypes
<1>. QED
  BY <1>1, <1>7, <1>8, <1>9 DEF TaskOnce

(* The same in the next state.                                              *)
LEMMA SumAtTheEndNext ==
  (FarmParts /\ sink = "ended" => \A t \in 1 .. length : sum[t] = 1)'
BY SumAtTheEnd, PTL

(* Every step keeps the invariant, adds at most one result, not added       *)
(* before, and ends the sink only behind the last one.                      *)
LEMMA FarmStep ==
  ASSUME FarmParts, Farm!Next
  PROVE  /\ FarmParts'
         /\ \/ sum' = sum /\ sink' = sink
            \/ /\ sink # "ended" /\ sink' # "ended"
               /\ \E t \in 1 .. length : sum[t] = 0 /\ sum' = [sum EXCEPT ![t] = 1]
            \/ /\ sum' = sum /\ sink' = "ended"
               /\ \A t \in 1 .. length : sum[t] = 1
<1>1. CASE \E w \in Farm!Worker : Farm!SinkReceive(w)
  <2>1. PICK w \in Farm!Worker : Farm!SinkReceive(w)
    BY <1>1
  <2>2. /\ FarmParts' /\ sink = "running"
        /\ \/ sum' = sum
           \/ /\ sink' = "running"
              /\ \E t \in 1 .. length : sum[t] = 0 /\ sum' = [sum EXCEPT ![t] = 1]
    BY <2>1, SinkReceiveStep
  <2>3. sink' \in {sink, "ended"}
    BY <2>1 DEF Farm!SinkReceive
  <2>4. sink' = "ended" => \A t \in 1 .. length : sum'[t] = 1
    BY <2>2, SumAtTheEndNext
  <2>. QED
    BY <2>2, <2>3, <2>4
<1>2. CASE ~\E w \in Farm!Worker : Farm!SinkReceive(w)
  <2>1. FarmParts'
    <3>1. CASE Farm!SourceSend
      BY <3>1, SourceSendStep
    <3>2. CASE Farm!EmitterTask
      BY <3>2, EmitterTaskStep
    <3>3. ASSUME NEW w \in Farm!Worker, Farm!EmitterReady(w)
          PROVE  FarmParts'
      BY <3>3, EmitterReadyStep
    <3>4. CASE Farm!EmitterEOS
      BY <3>4, EmitterEOSStep
    <3>5. CASE Farm!EmitterEnds
      BY <3>5, EmitterEndsStep
    <3>6. ASSUME NEW w \in Farm!Worker, Farm!dotProd(w)
          PROVE  FarmParts'
      <4>1. CASE Farm!Compute(w)
        BY <4>1, ComputeStep
      <4>2. CASE Farm!SendFlag(w)
        BY <4>2, SendFlagStep
      <4>3. CASE Farm!SendResult(w)
        BY <4>3, SendResultStep
      <4>4. CASE Farm!WorkerEnds(w)
        BY <4>4, FarmWorkerEndsStep
      <4>. QED
        BY <3>6, <4>1, <4>2, <4>3, <4>4 DEF Farm!dotProd
    <3>7. CASE Farm!Ended
      <4>1. UNCHANGED <<sent, input, ready, nready, last, data, eos_received, emitter, task,
                        back, result, worker, sum, sinkEOS, sink>>
        BY <3>7 DEF Farm!Ended, Farm!vars, Farm!emitterVars, Farm!sinkVars
      <4>. QED
        BY <4>1 DEF FarmParts, FarmTypes, SourceEnd, Serving, Finishing, ResultsEnd, TaskOnce,
                    InFarmOf
    <3>. QED
      BY <1>2, <3>1, <3>2, <3>3, <3>4, <3>5, <3>6, <3>7 DEF Farm!Next, Farm!Emitter, Farm!Sink
  <2>2. sum' = sum /\ sink' = sink
    BY <1>2 DEF Farm!Next, Farm!Emitter, Farm!Sink, Farm!SourceSend, Farm!EmitterTask,
                Farm!EmitterReady, Farm!EmitterEOS, Farm!EmitterEnds, Farm!dotProd,
                Farm!Compute, Farm!SendFlag, Farm!SendResult, Farm!WorkerEnds, Farm!Ended,
                Farm!vars, Farm!sinkVars
  <2>. QED
    BY <2>1, <2>2
<1>. QED
  BY <1>1, <1>2

(* The unanswered tasks and the flags of a worker.                          *)
LEMMA FarmCounts ==
  ASSUME NEW q \in Seq(0 .. length)
  PROVE  /\ Farm!Cardinality({k \in DOMAIN q : q[k] # 0}) = Items(q)
         /\ q \in Seq(1 .. length) => Items(q) = Len(q)
<1>1. \A k \in DOMAIN q : q[k] \in 0 .. length
  BY SeqElement
<1>2. {k \in DOMAIN q : q[k] # 0} = {k \in DOMAIN q : q[k] \in 1 .. length}
  BY <1>1, FarmAssumption
<1>3. ASSUME q \in Seq(1 .. length)
      PROVE  Items(q) = Len(q)
  <2>1. \A k \in DOMAIN q : q[k] \in 1 .. length
    BY <1>3, SeqElement
  <2>2. {k \in DOMAIN q : q[k] \in 1 .. length} = 1 .. Len(q) /\ Len(q) \in Nat
    BY <2>1
  <2>3. Cardinality(1 .. Len(q)) = Len(q)
    <3>1. PICK n \in Nat : n = Len(q)
      BY <2>2
    <3>2. Cardinality(1 .. n) = IF 1 > n THEN 0 ELSE n - 1 + 1
      BY FS_Interval
    <3>. QED
      BY <3>1, <3>2
  <2>. QED
    BY <2>2, <2>3 DEF Items, Among
<1>. QED
  BY <1>2, <1>3, FarmWorkers DEF Items, Among

(* A queue of flags, with or without EOS.                                   *)
LEMMA FlagCounts ==
  ASSUME NEW f, f = <<>> \/ f = << 1 >> \/ f = << 0 >>
  PROVE  Farm!Cardinality({k \in DOMAIN f : f[k] # 0}) = IF f = <<1>> THEN 1 ELSE 0
<1>1. CASE f = <<1>>
  <2>1. DOMAIN <<1>> = {1} /\ <<1>>[1] = 1
    OBVIOUS
  <2>2. {k \in DOMAIN f : f[k] # 0} = {1}
    BY <1>1, <2>1
  <2>. QED
    BY <1>1, <2>2, FarmWorkers, FS_Singleton
<1>2. CASE f = <<>> \/ f = <<0>>
  <2>1. DOMAIN <<0>> = {1} /\ <<0>>[1] = 0 /\ DOMAIN <<>> = {} /\ <<1>>[1] = 1
        /\ <<>> # <<1>>
    OBVIOUS
  <2>2. {k \in DOMAIN f : f[k] # 0} = {} /\ f # <<1>>
    BY <1>2, <2>1
  <2>. QED
    BY <2>2, FarmWorkers, FS_EmptySet
<1>. QED
  BY <1>1, <1>2

(* What the farm promises at every step.                                    *)
LEMMA FarmFacts ==
  ASSUME FarmParts
  PROVE  Farm!OnDemand /\ Farm!BufferOnlyWhenBusy /\ Farm!EOSBehindLastTask
<1>1. FarmTypes
  BY DEF FarmParts
<1>2. Farm!BufferOnlyWhenBusy
  BY DEF FarmParts, Serving, Finishing, Farm!BufferOnlyWhenBusy
<1>3. Farm!EOSBehindLastTask
  <2>. SUFFICES ASSUME NEW w \in Farm!Worker,
                       0 \in Farm!Elements(task[w]) \/ worker[w] = "ended",
                       Serving
                PROVE  FALSE
    BY DEF Farm!EOSBehindLastTask, Farm!EOS, FarmParts, Finishing
  <2>1. Serves(task[w], back[w], worker[w], w \in ready)
    BY DEF Serving
  <2>2. task[w] \in Seq(1 .. length) /\ worker[w] # "ended"
    BY <2>1 DEF Serves
  <2>3. \A k \in DOMAIN task[w] : task[w][k] # 0
    BY <2>2, SeqElement, FarmAssumption
  <2>. QED
    BY <2>2, <2>3 DEF Farm!Elements
<1>4. ASSUME NEW w \in Farm!Worker
      PROVE  Farm!Unfinished(w) + Farm!Flags(w) - (IF worker[w] = "notified" THEN 1 ELSE 0)
               = IF w \in ready THEN 0 ELSE 1
  <2>1. Farm!Unfinished(w) = Items(task[w]) /\ task[w] \in Seq(0 .. length)
    BY <1>1, FarmCounts DEF FarmTypes, Farm!Unfinished, Farm!EOS
  <2>2. CASE Serving
    <3>1. Serves(task[w], back[w], worker[w], w \in ready)
      BY <2>2 DEF Serving
    <3>2. Items(task[w]) = Len(task[w]) /\ Len(task[w]) \in Nat
      <4>1. task[w] \in Seq(1 .. length)
        BY <3>1 DEF Serves
      <4>2. Items(task[w]) = Len(task[w])
        BY <2>1, <4>1, FarmCounts
      <4>. QED
        BY <2>1, <4>2
    <3>3. Farm!Flags(w) = Len(back[w]) /\ Len(back[w]) \in Nat
      <4>1. back[w] = <<>> \/ back[w] = <<1>>
        BY <3>1 DEF Serves
      <4>2. Farm!Flags(w) = IF back[w] = <<1>> THEN 1 ELSE 0
        BY <4>1, FlagCounts DEF Farm!Flags, Farm!EOS
      <4>. QED
        BY <4>1, <4>2, FlagLength, ShortLengths
    <3>4. \/ /\ worker[w] = "idle"
             /\ Len(task[w]) + Len(back[w]) = (IF w \in ready THEN 0 ELSE 1)
          \/ worker[w] = "busy" /\ Len(task[w]) = 1 /\ Len(back[w]) = 0 /\ w \notin ready
          \/ /\ worker[w] = "notified"
             /\ Len(task[w]) + Len(back[w]) = (IF w \in ready THEN 1 ELSE 2)
      BY <3>1, ShortLengths DEF Serves
    <3>6. PICK u \in Nat, f \in Nat : u = Len(task[w]) /\ f = Len(back[w])
      BY <3>2, <3>3
    <3>7. u + f = (IF w \in ready THEN 0 ELSE 1) + (IF worker[w] = "notified" THEN 1 ELSE 0)
      <4>1. CASE worker[w] = "busy"
        <5>1. u = 1 /\ f = 0 /\ w \notin ready
          BY <3>4, <3>6, <4>1
        <5>. QED
          BY <4>1, <5>1
      <4>2. CASE worker[w] = "idle"
        <5>1. u + f = (IF w \in ready THEN 0 ELSE 1)
          BY <3>4, <3>6, <4>2
        <5>. QED
          BY <4>2, <5>1
      <4>3. CASE worker[w] = "notified"
        <5>1. u + f = (IF w \in ready THEN 1 ELSE 2)
          BY <3>4, <3>6, <4>3
        <5>. QED
          BY <4>3, <5>1
      <4>. QED
        BY <3>4, <4>1, <4>2, <4>3
    <3>8. Farm!Unfinished(w) = u /\ Farm!Flags(w) = f
      BY <2>1, <3>2, <3>3, <3>6
    <3>9. PICK a \in Nat, b \in Nat : /\ a = (IF w \in ready THEN 0 ELSE 1)
                                      /\ b = (IF worker[w] = "notified" THEN 1 ELSE 0)
      OBVIOUS
    <3>10. u + f = a + b
      BY <3>7, <3>9
    <3>11. u + (f - b) = a
      BY <3>10
    <3>. QED
      BY <3>8, <3>9, <3>11
  <2>3. CASE Finishing
    <3>1. Told(task[w], back[w], worker[w]) /\ w \in ready
      BY <2>3 DEF Finishing
    <3>2. Farm!Flags(w) = 0
      <4>1. back[w] = <<>> \/ back[w] = <<0>>
        BY <3>1 DEF Told
      <4>2. <<0>> # <<1>> /\ <<>> # <<1>>
        BY ShortLengths
      <4>. QED
        BY <4>1, <4>2, FlagCounts DEF Farm!Flags, Farm!EOS
    <3>3. Items(task[w]) = IF worker[w] = "notified" THEN 1 ELSE 0
      <4>1. PICK e \in Seq(0 .. length) : e = <<>>
        <5>1. <<>> \in Seq(0 .. length)
          OBVIOUS
        <5>. QED
          BY <5>1
      <4>2. Items(e) = 0 /\ Items(Append(e, 0)) = 0
        <5>1. 0 \in 0 .. length
          BY FarmAssumption
        <5>2. Items(e) = 0
          BY <4>1, QueueCounts
        <5>3. Items(Append(e, 0)) = Items(e) + (IF 0 = 0 THEN 0 ELSE 1)
          BY <5>1, QueueAppend
        <5>. QED
          BY <5>2, <5>3
      <4>3. ASSUME NEW t \in 1 .. length
            PROVE  Items(<<t, 0>>) = 1
        <5>1. t \in 0 .. length /\ t # 0
          BY FarmAssumption
        <5>2. PICK a \in Seq(0 .. length) : a = Append(e, t)
          BY <5>1, QueueAppend
        <5>3. Items(a) = Items(e) + (IF t = 0 THEN 0 ELSE 1)
          BY <5>1, <5>2, QueueAppend
        <5>4. Items(Append(a, 0)) = Items(a) + (IF 0 = 0 THEN 0 ELSE 1)
          <6>1. 0 \in 0 .. length
            BY FarmAssumption
          <6>. QED
            BY <6>1, QueueAppend
        <5>5. a = <<t>> /\ Append(a, 0) = <<t, 0>>
          BY <4>1, <5>2, AppendToEmpty, AppendToOne
        <5>6. Items(a) = 1
          BY <4>2, <5>1, <5>3
        <5>7. Items(Append(a, 0)) = 1
          BY <5>4, <5>6
        <5>. QED
          BY <5>5, <5>7
      <4>4. Items(<<0>>) = 0 /\ Items(<<>>) = 0
        BY <4>1, <4>2, AppendToEmpty
      <4>. QED
        BY <3>1, <4>3, <4>4 DEF Told
    <3>. QED
      BY <2>1, <3>1, <3>2, <3>3
  <2>. QED
    BY <2>2, <2>3 DEF FarmParts
<1>5. Farm!OnDemand
  <2>1. nready = Farm!Cardinality(ready)
    BY <1>1, FarmWorkers DEF FarmTypes
  <2>. QED
    BY <1>4, <2>1 DEF Farm!OnDemand
<1>. QED
  BY <1>2, <1>3, <1>5

-----------------------------------------------------------------------------
(* The programs of example6 and example8 that stream dot products.          *)

DotQueues(q) == IsFiniteSet(DOMAIN q) /\ \A c \in DOMAIN q : q[c] \in Seq(0 .. length)
DotNodes(h) == IsFiniteSet(DOMAIN h) /\ \A n \in DOMAIN h : h[n] \in 0 .. length

DotTypes ==
  /\ program \in Dots!Programs /\ nsent \in 0 .. length + 1
  /\ DOMAIN queue = Dots!net.channels /\ DotQueues(queue)
  /\ DOMAIN held = Dots!Node /\ DotNodes(held)
  /\ running \subseteq Dots!Node /\ pool \subseteq 1 .. length
  /\ added \in [1 .. length -> Nat]

(* A node that sends nothing any more.                                      *)
Finished(n) == IF n = Dots!net.source THEN nsent > length ELSE n \notin running
StateOf(n) == IF Finished(n) THEN "ended" ELSE "running"

(* EOS is behind the last item, and the node that sent it has finished.     *)
ChannelsEnd ==
  \A c \in Dots!net.channels : Delivers(queue[c], StateOf(c[1]), c \in eosFrom)

(* The nodes that have not ended may hold an item.                          *)
NodesEnd ==
  /\ held[Dots!net.source] = 0 /\ held[Dots!net.sink] = 0
  /\ \A n \in Dots!Node : n \notin running => held[n] = 0 /\ Dots!In(n) \subseteq eosFrom
  /\ Dots!net.source \notin running => nsent > length
  /\ pool = {}

(* The tasks of OpenMP.                                                     *)
TeamWorks ==
  /\ held[Dots!net.source] = 0 /\ nsent <= length
  /\ \A c \in Dots!net.channels : queue[c] = <<>>
  /\ \A n \in Dots!Workers : vectors[n] = (IF held[n] = 0 THEN {} ELSE {held[n]})
  /\ DOMAIN vectors = Dots!Workers
  /\ \/ running = Dots!Node
     \/ /\ running = {} /\ nsent = length /\ pool = {}
        /\ \A n \in Dots!Workers : held[n] = 0

(* Every item is in one place, or added up.                                 *)
QueuedOf(q, i) == [c \in DOMAIN q |-> Occurs(q[c], i)]
Queued(q, i) == SumOver(QueuedOf(q, i), DOMAIN q)
HeldOf(h, i) == [n \in DOMAIN h |-> IF h[n] = i THEN 1 ELSE 0]
Held(h, i) == SumOver(HeldOf(h, i), DOMAIN h)
DotOnce(i) ==
  (IF i > nsent THEN 1 ELSE 0) + (IF i \in pool THEN 1 ELSE 0)
    + Queued(queue, i) + Held(held, i) + added[i] = 1

DotParts ==
  /\ DotTypes
  /\ IF Dots!OpenMP THEN TeamWorks ELSE ChannelsEnd /\ NodesEnd
  /\ \A i \in 1 .. length : DotOnce(i)

DotInv == network = "dots" => DotParts

(* How far down the network a channel starts.                               *)
Depth(c) ==
  CASE c[1][1] = "Source" -> 0 [] c[1][1] = "Emitter" -> 1
    [] c[1][1] = "dotProd" -> 2 [] OTHER -> 3

(* What the networks have in common: every channel leads to the sink or to  *)
(* a node with channels further down.                                       *)
LeadsOn(channels, first, goal) ==
  /\ \A c \in channels : c[2] # goal =>
       c[2] # first /\ \E d \in channels : d[1] = c[2] /\ Depth(c) < Depth(d)
  /\ goal # first => (\E c \in channels : c[1] = first) /\ (\E c \in channels : c[2] = goal)

(* The channels of at most five stages.                                     *)
LEMMA StagesOf ==
  /\ \A A : Dots!Stages(<<A>>) = {}
  /\ \A A, B : Dots!Stages(<<A, B>>) = A \X B
  /\ \A A, B, C : Dots!Stages(<<A, B, C>>) = (A \X B) \cup (B \X C)
  /\ \A A, B, C, D :
       Dots!Stages(<<A, B, C, D>>) = (A \X B) \cup (B \X C) \cup (C \X D)
  /\ \A A, B, C, D, E :
       Dots!Stages(<<A, B, C, D, E>>) = (A \X B) \cup (B \X C) \cup (C \X D) \cup (D \X E)
<1>1. ASSUME NEW A
      PROVE   Dots!Stages(<<A>>) = {}
  <2>1. 1 .. Len(<<A>>) - 1 = {}
    OBVIOUS
  <2>. QED
    BY <2>1 DEF Dots!Stages
<1>2. ASSUME NEW A, NEW B
      PROVE   Dots!Stages(<<A, B>>) = A \X B
  <2>1. 1 .. Len(<<A, B>>) - 1 = {1} /\ <<A, B>>[1] = A /\ <<A, B>>[1 + 1] = B
    OBVIOUS
  <2>. QED
    BY <2>1 DEF Dots!Stages
<1>3. ASSUME NEW A, NEW B, NEW C
      PROVE   Dots!Stages(<<A, B, C>>) = (A \X B) \cup (B \X C)
  <2>1. /\ 1 .. Len(<<A, B, C>>) - 1 = {1, 2}
        /\ <<A, B, C>>[1] = A /\ <<A, B, C>>[2] = B /\ <<A, B, C>>[1 + 1] = B
        /\ <<A, B, C>>[2 + 1] = C
    OBVIOUS
  <2>. QED
    BY <2>1 DEF Dots!Stages
<1>4. ASSUME NEW A, NEW B, NEW C, NEW D
      PROVE   Dots!Stages(<<A, B, C, D>>) = (A \X B) \cup (B \X C) \cup (C \X D)
  <2>1. /\ 1 .. Len(<<A, B, C, D>>) - 1 = {1, 2, 3}
        /\ <<A, B, C, D>>[1] = A /\ <<A, B, C, D>>[1 + 1] = B
        /\ <<A, B, C, D>>[2] = B /\ <<A, B, C, D>>[2 + 1] = C
        /\ <<A, B, C, D>>[3] = C /\ <<A, B, C, D>>[3 + 1] = D
    OBVIOUS
  <2>. QED
    BY <2>1 DEF Dots!Stages
<1>5. ASSUME NEW A, NEW B, NEW C, NEW D, NEW E
      PROVE   Dots!Stages(<<A, B, C, D, E>>) = (A \X B) \cup (B \X C) \cup (C \X D) \cup (D \X E)
  <2>1. /\ 1 .. Len(<<A, B, C, D, E>>) - 1 = {1, 2, 3, 4}
        /\ <<A, B, C, D, E>>[1] = A /\ <<A, B, C, D, E>>[1 + 1] = B
        /\ <<A, B, C, D, E>>[2] = B /\ <<A, B, C, D, E>>[2 + 1] = C
        /\ <<A, B, C, D, E>>[3] = C /\ <<A, B, C, D, E>>[3 + 1] = D
        /\ <<A, B, C, D, E>>[4] = D /\ <<A, B, C, D, E>>[4 + 1] = E
    OBVIOUS
  <2>. QED
    BY <2>1 DEF Dots!Stages
<1>. QED
  BY <1>1, <1>2, <1>3, <1>4, <1>5

(* The networks.                                                            *)
LEMMA NetworksOf ==
  ASSUME program \in Dots!Programs
  PROVE  /\ Dots!net.source = Dots!Source /\ Dots!net.sink \in {Dots!Source, Dots!Sink}
         /\ \/ /\ program \in {"onenode", "seq"}
               /\ Dots!net.channels = {} /\ Dots!net.sink = Dots!Source /\ ~Dots!net.alive
            \/ /\ program \in {"omp", "omp2"}
               /\ Dots!net.channels = {Dots!Source} \X Dots!Workers
               /\ Dots!net.sink = Dots!Source /\ ~Dots!net.alive
            \/ /\ program \notin {"omp", "omp2"}
               /\ \E P \in {{Dots!W(1)}, Dots!Workers} :
                    Dots!net.channels
                      = ({Dots!Source} \X P) \cup (P \X {Dots!net.sink})
               /\ Dots!net.alive = (Dots!net.sink = Dots!Source)
            \/ /\ program = "farm2"
               /\ Dots!net.channels
                    = ({Dots!Source} \X {Dots!Emitter}) \cup ({Dots!Emitter} \X Dots!Workers)
                        \cup (Dots!Workers \X {Dots!Sink})
               /\ Dots!net.sink = Dots!Sink /\ ~Dots!net.alive
            \/ /\ program = "farm"
               /\ Dots!net.channels
                    = ({Dots!Source} \X {Dots!Emitter}) \cup ({Dots!Emitter} \X Dots!Workers)
                        \cup (Dots!Workers \X {Dots!Collector})
                        \cup ({Dots!Collector} \X {Dots!Sink})
               /\ Dots!net.sink = Dots!Sink /\ ~Dots!net.alive
<1>. DEFINE first == {Dots!Source}
            team == Dots!Workers
            goal == {Dots!Sink}
            enter == {Dots!Emitter}
            leave == {Dots!Collector}
            one == {Dots!W(1)}
<1>0. Dots!Source # Dots!Sink
  BY DEF Dots!Source, Dots!Sink
<1>1. CASE program \in {"onenode", "seq"}
  <2>1. Dots!net = [Dots!Network(<<first>>) EXCEPT !.sink = Dots!Source]
    BY <1>1 DEF Dots!net, Dots!onenode, Dots!seq
  <2>2. Dots!Stages(<<first>>) = {}
    BY StagesOf
  <2>. QED
    BY <1>1, <2>1, <2>2 DEF Dots!Network
<1>2. CASE program \in {"omp", "omp2"}
  <2>1. Dots!net = [Dots!Network(<<first, team>>) EXCEPT !.sink = Dots!Source]
    BY <1>2 DEF Dots!net, Dots!omp, Dots!omp2
  <2>2. Dots!Stages(<<first, team>>) = first \X team
    BY StagesOf
  <2>. QED
    BY <1>2, <2>1, <2>2 DEF Dots!Network
<1>3. CASE program \in {"pipe", "pipe_square"}
  <2>1. Dots!net = Dots!Network(<<first, one, goal>>)
    BY <1>3 DEF Dots!net, Dots!pipe, Dots!pipe_square
  <2>2. Dots!Stages(<<first, one, goal>>) = (first \X one) \cup (one \X goal)
    BY StagesOf
  <2>3. /\ Dots!net.channels = (first \X one) \cup (one \X goal)
        /\ Dots!net.source = Dots!Source /\ Dots!net.sink = Dots!Sink /\ Dots!net.alive = FALSE
    BY <2>1, <2>2 DEF Dots!Network
  <2>. QED
    BY <1>3, <2>3, <1>0
<1>4. CASE program \in {"farm3", "a2a", "farm3_ordered"}
  <2>1. /\ Dots!net.channels = Dots!Stages(<<first, team, goal>>)
        /\ Dots!net.source = Dots!Source /\ Dots!net.sink = Dots!Sink /\ Dots!net.alive = FALSE
    BY <1>4 DEF Dots!net, Dots!farm3, Dots!a2a, Dots!farm3_ordered, Dots!OnDemandFarm, Dots!Network
  <2>2. Dots!Stages(<<first, team, goal>>) = (first \X team) \cup (team \X goal)
    BY StagesOf
  <2>. QED
    BY <1>0, <1>4, <2>1, <2>2
<1>5. CASE program \in {"farm4", "farm5"}
  <2>1. /\ Dots!net.channels = Dots!Stages(<<first, team, first>>)
        /\ Dots!net.source = Dots!Source /\ Dots!net.sink = Dots!Source /\ Dots!net.alive = TRUE
    BY <1>5 DEF Dots!net, Dots!farm4, Dots!farm5, Dots!OnDemandFarm, Dots!Network
  <2>3. Dots!Stages(<<first, team, first>>) = (first \X team) \cup (team \X first)
    BY StagesOf
  <2>. QED
    BY <1>0, <1>5, <2>1, <2>3
<1>6. CASE program = "farm2"
  <2>1. /\ Dots!net.channels = Dots!Stages(<<first, enter, team, goal>>)
        /\ Dots!net.source = Dots!Source /\ Dots!net.sink = Dots!Sink /\ Dots!net.alive = FALSE
    BY <1>6 DEF Dots!net, Dots!farm2, Dots!OnDemandFarm, Dots!Network
  <2>2. Dots!Stages(<<first, enter, team, goal>>)
          = (first \X enter) \cup (enter \X team) \cup (team \X goal)
    BY StagesOf
  <2>. QED
    BY <1>6, <2>1, <2>2
<1>7. CASE program = "farm"
  <2>1. /\ Dots!net.channels = Dots!Stages(<<first, enter, team, leave, goal>>)
        /\ Dots!net.source = Dots!Source /\ Dots!net.sink = Dots!Sink /\ Dots!net.alive = FALSE
    BY <1>7 DEF Dots!net, Dots!farm, Dots!OnDemandFarm, Dots!Network
  <2>2. Dots!Stages(<<first, enter, team, leave, goal>>)
          = (first \X enter) \cup (enter \X team) \cup (team \X leave) \cup (leave \X goal)
    BY StagesOf
  <2>. QED
    BY <1>7, <2>1, <2>2
<1>. QED
  BY <1>1, <1>2, <1>3, <1>4, <1>5, <1>6, <1>7 DEF Dots!Programs

(* The nodes of all the programs.                                           *)
AnyNode == {Dots!Source, Dots!Emitter, Dots!Collector, Dots!Sink} \cup Dots!Workers

(* The workers are finitely many, and none is another node.                 *)
LEMMA Team ==
  /\ IsFiniteSet(Dots!Workers) /\ Dots!W(1) \in Dots!Workers /\ IsFiniteSet(AnyNode)
  /\ Dots!Source \notin Dots!Workers /\ Dots!Emitter \notin Dots!Workers
  /\ Dots!Collector \notin Dots!Workers /\ Dots!Sink \notin Dots!Workers
  /\ Dots!Source # Dots!Emitter /\ Dots!Source # Dots!Collector /\ Dots!Source # Dots!Sink
  /\ Dots!Emitter # Dots!Collector /\ Dots!Emitter # Dots!Sink /\ Dots!Collector # Dots!Sink
<1>1. IsFiniteSet(Dots!Workers)
  <2>. DEFINE f == [w \in 1 .. nworkers |-> Dots!W(w)]
  <2>1. f \in Surjection(1 .. nworkers, Dots!Workers)
    BY DEF Surjection, Dots!Workers
  <2>2. IsFiniteSet(1 .. nworkers)
    BY FS_Interval, FarmAssumption
  <2>. QED
    BY <2>1, <2>2, FS_Surjection
<1>2. Dots!W(1) \in Dots!Workers
  BY FarmAssumption DEF Dots!Workers
<1>3. IsFiniteSet({Dots!Source, Dots!Emitter, Dots!Collector, Dots!Sink})
  <2>1. /\ IsFiniteSet({Dots!Source}) /\ IsFiniteSet({Dots!Emitter})
        /\ IsFiniteSet({Dots!Collector}) /\ IsFiniteSet({Dots!Sink})
    BY FS_Singleton
  <2>2. IsFiniteSet({Dots!Source} \cup {Dots!Emitter})
    BY <2>1, FS_Union
  <2>3. IsFiniteSet({Dots!Collector} \cup {Dots!Sink})
    BY <2>1, FS_Union
  <2>4. IsFiniteSet(({Dots!Source} \cup {Dots!Emitter}) \cup ({Dots!Collector} \cup {Dots!Sink}))
    BY <2>2, <2>3, FS_Union
  <2>5. {Dots!Source, Dots!Emitter, Dots!Collector, Dots!Sink}
          = ({Dots!Source} \cup {Dots!Emitter}) \cup ({Dots!Collector} \cup {Dots!Sink})
    OBVIOUS
  <2>. QED
    BY <2>4, <2>5
<1>4. IsFiniteSet(AnyNode)
  BY <1>1, <1>3, FS_Union DEF AnyNode
<1>5. \A n \in Dots!Workers : n[1] = "dotProd"
  BY DEF Dots!Workers, Dots!W
<1>6. /\ Dots!Source[1] = "Source" /\ Dots!Emitter[1] = "Emitter"
      /\ Dots!Collector[1] = "Collector" /\ Dots!Sink[1] = "Sink"
  BY DEF Dots!Source, Dots!Emitter, Dots!Collector, Dots!Sink
<1>. QED
  BY <1>1, <1>2, <1>4, <1>5, <1>6

(* What every program of the module has: finitely many nodes and channels,  *)
(* the source among them; its sink; a network without OpenMP leads on, and  *)
(* the source has input channels only if it outlives its stream.            *)
NetFacts ==
  /\ IsFiniteSet(Dots!net.channels) /\ IsFiniteSet(Dots!Node)
  /\ Dots!net.source = Dots!Source /\ Dots!net.source \in Dots!Node
  /\ Dots!net.sink \in Dots!Node
  /\ \A c \in Dots!net.channels : c[1] \in Dots!Node /\ c[2] \in Dots!Node /\ c[1] # c[2]
  /\ ~Dots!OpenMP =>
       /\ LeadsOn(Dots!net.channels, Dots!net.source, Dots!net.sink)
       /\ Dots!net.alive \/ Dots!In(Dots!net.source) = {}
  /\ Dots!OpenMP =>
       /\ Dots!net.channels = {Dots!Source} \X Dots!Workers
       /\ Dots!net.sink = Dots!Source /\ Dots!Node = {Dots!Source} \cup Dots!Workers

(* The networks the programs build have the shape the proofs use.           *)
LEMMA NetworkFacts ==
  ASSUME program \in Dots!Programs
  PROVE  NetFacts
<1>. DEFINE first == {Dots!Source}
            team == Dots!Workers
            enter == {Dots!Emitter}
            leave == {Dots!Collector}
            channels == Dots!net.channels
            goal == Dots!net.sink
<1>1. Dots!net.source = Dots!Source /\ goal \in {Dots!Source, Dots!Sink}
  BY NetworksOf
<1>2. channels \subseteq AnyNode \X AnyNode /\ (goal \in AnyNode)
  BY NetworksOf, Team DEF AnyNode
<1>3. \A c \in channels : c[1] \in Dots!Node /\ c[2] \in Dots!Node /\ c[1] # c[2]
  BY NetworksOf, Team DEF Dots!Node
<1>4. IsFiniteSet(channels) /\ IsFiniteSet(Dots!Node)
  <2>1. Dots!Node \subseteq AnyNode
    <3>1. \A c \in channels : c[1] \in AnyNode /\ c[2] \in AnyNode
      BY <1>2
    <3>. QED
      BY <1>1, <3>1 DEF Dots!Node, AnyNode
  <2>. QED
    BY <1>2, <2>1, Team, FS_Subset, FS_Product
<1>5. /\ \A x : Depth(<<Dots!Source, x>>) = 0 /\ Depth(<<Dots!Emitter, x>>) = 1
      /\ \A x : Depth(<<Dots!Collector, x>>) = 3
      /\ \A n \in team : \A x : Depth(<<n, x>>) = 2
  BY DEF Depth, Dots!Source, Dots!Emitter, Dots!Collector, Dots!Workers, Dots!W
<1>6. ASSUME ~Dots!OpenMP
      PROVE  /\ LeadsOn(channels, Dots!Source, goal)
             /\ Dots!net.alive \/ Dots!In(Dots!Source) = {}
  <2>1. CASE channels = {} /\ goal = Dots!Source
    BY <2>1 DEF LeadsOn, Dots!In
  <2>2. ASSUME NEW P \in {{Dots!W(1)}, team}, channels = (first \X P) \cup (P \X {goal}),
               Dots!net.alive = (goal = Dots!Source)
        PROVE  /\ LeadsOn(channels, Dots!Source, goal)
               /\ Dots!net.alive \/ Dots!In(Dots!Source) = {}
    <3>1. P \subseteq team /\ Dots!W(1) \in P
      BY Team
    <3>2. ASSUME NEW c \in channels, c[2] # goal
          PROVE  c[2] # Dots!Source /\ \E d \in channels : d[1] = c[2] /\ Depth(c) < Depth(d)
      <4>1. PICK n \in P : c = <<Dots!Source, n>>
        BY <2>2, <3>2
      <4>2. /\ <<n, goal>> \in channels /\ <<n, goal>>[1] = n /\ c[2] = n
            /\ Depth(c) = 0 /\ Depth(<<n, goal>>) = 2 /\ n # Dots!Source
        BY <1>5, <2>2, <3>1, <4>1, Team
      <4>. QED
        BY <4>2
    <3>3. /\ <<Dots!Source, Dots!W(1)>> \in channels /\ <<Dots!W(1), goal>> \in channels
          /\ <<Dots!Source, Dots!W(1)>>[1] = Dots!Source /\ <<Dots!W(1), goal>>[2] = goal
      BY <2>2, <3>1
    <3>4. goal # Dots!Source => \A c \in channels : c[2] # Dots!Source
      BY <2>2, <3>1, Team
    <3>. QED
      BY <2>2, <3>2, <3>3, <3>4 DEF LeadsOn, Dots!In
  <2>3. CASE /\ channels = (first \X enter) \cup (enter \X team) \cup (team \X {Dots!Sink})
             /\ goal = Dots!Sink
    <3>2. ASSUME NEW c \in channels, c[2] # goal
          PROVE  c[2] # Dots!Source /\ \E d \in channels : d[1] = c[2] /\ Depth(c) < Depth(d)
      <4>1. CASE c = <<Dots!Source, Dots!Emitter>>
        <5>1. /\ <<Dots!Emitter, Dots!W(1)>> \in channels /\ c[2] = Dots!Emitter
              /\ <<Dots!Emitter, Dots!W(1)>>[1] = Dots!Emitter
              /\ Depth(c) = 0 /\ Depth(<<Dots!Emitter, Dots!W(1)>>) = 1
          BY <1>5, <2>3, <4>1, Team
        <5>. QED
          BY <5>1, Team
      <4>2. ASSUME NEW n \in team, c = <<Dots!Emitter, n>>
            PROVE  c[2] # Dots!Source
                   /\ \E d \in channels : d[1] = c[2] /\ Depth(c) < Depth(d)
        <5>1. /\ <<n, Dots!Sink>> \in channels /\ <<n, Dots!Sink>>[1] = n /\ c[2] = n
              /\ Depth(c) = 1 /\ Depth(<<n, Dots!Sink>>) = 2 /\ n # Dots!Source
          BY <1>5, <2>3, <4>2, Team
        <5>. QED
          BY <5>1
      <4>. QED
        BY <2>3, <3>2, <4>1, <4>2
    <3>3. /\ <<Dots!Source, Dots!Emitter>> \in channels /\ <<Dots!W(1), goal>> \in channels
          /\ <<Dots!Source, Dots!Emitter>>[1] = Dots!Source /\ <<Dots!W(1), goal>>[2] = goal
      BY <2>3, Team
    <3>4. \A c \in channels : c[2] # Dots!Source
      BY <2>3, Team
    <3>. QED
      BY <2>3, <3>2, <3>3, <3>4 DEF LeadsOn, Dots!In
  <2>4. CASE /\ channels = (first \X enter) \cup (enter \X team) \cup (team \X leave)
                             \cup (leave \X {Dots!Sink})
             /\ goal = Dots!Sink
    <3>2. ASSUME NEW c \in channels, c[2] # goal
          PROVE  c[2] # Dots!Source /\ \E d \in channels : d[1] = c[2] /\ Depth(c) < Depth(d)
      <4>1. CASE c = <<Dots!Source, Dots!Emitter>>
        <5>1. /\ <<Dots!Emitter, Dots!W(1)>> \in channels /\ c[2] = Dots!Emitter
              /\ <<Dots!Emitter, Dots!W(1)>>[1] = Dots!Emitter
              /\ Depth(c) = 0 /\ Depth(<<Dots!Emitter, Dots!W(1)>>) = 1
          BY <1>5, <2>4, <4>1, Team
        <5>. QED
          BY <5>1, Team
      <4>2. ASSUME NEW n \in team, c = <<Dots!Emitter, n>>
            PROVE  c[2] # Dots!Source
                   /\ \E d \in channels : d[1] = c[2] /\ Depth(c) < Depth(d)
        <5>1. /\ <<n, Dots!Collector>> \in channels /\ <<n, Dots!Collector>>[1] = n /\ c[2] = n
              /\ Depth(c) = 1 /\ Depth(<<n, Dots!Collector>>) = 2 /\ n # Dots!Source
          BY <1>5, <2>4, <4>2, Team
        <5>. QED
          BY <5>1
      <4>3. ASSUME NEW n \in team, c = <<n, Dots!Collector>>
            PROVE  c[2] # Dots!Source
                   /\ \E d \in channels : d[1] = c[2] /\ Depth(c) < Depth(d)
        <5>1. /\ <<Dots!Collector, Dots!Sink>> \in channels
              /\ <<Dots!Collector, Dots!Sink>>[1] = Dots!Collector /\ c[2] = Dots!Collector
              /\ Depth(c) = 2 /\ Depth(<<Dots!Collector, Dots!Sink>>) = 3
          BY <1>5, <2>4, <4>3, Team
        <5>. QED
          BY <5>1, Team
      <4>. QED
        BY <2>4, <3>2, <4>1, <4>2, <4>3
    <3>3. /\ <<Dots!Source, Dots!Emitter>> \in channels
          /\ <<Dots!Collector, Dots!Sink>> \in channels
          /\ <<Dots!Source, Dots!Emitter>>[1] = Dots!Source
          /\ <<Dots!Collector, Dots!Sink>>[2] = goal
      BY <2>4, Team
    <3>4. \A c \in channels : c[2] # Dots!Source
      BY <2>4, Team
    <3>. QED
      BY <2>4, <3>2, <3>3, <3>4 DEF LeadsOn, Dots!In
  <2>. QED
    BY <1>6, <2>1, <2>2, <2>3, <2>4, NetworksOf DEF Dots!OpenMP
<1>7. ASSUME Dots!OpenMP
      PROVE  /\ channels = {Dots!Source} \X team /\ goal = Dots!Source
             /\ Dots!Node = {Dots!Source} \cup team
  <2>1. channels = {Dots!Source} \X team /\ goal = Dots!Source
    BY <1>7, NetworksOf DEF Dots!OpenMP
  <2>2. {c[1] : c \in {Dots!Source} \X team} = {Dots!Source}
    <3>1. <<Dots!Source, Dots!W(1)>> \in {Dots!Source} \X team
      BY Team
    <3>2. <<Dots!Source, Dots!W(1)>>[1] = Dots!Source
      OBVIOUS
    <3>3. \A c \in {Dots!Source} \X team : c[1] = Dots!Source
      OBVIOUS
    <3>. QED
      BY <3>1, <3>2, <3>3
  <2>3. {c[2] : c \in {Dots!Source} \X team} = team
    <3>1. \A n \in team : /\ <<Dots!Source, n>> \in {Dots!Source} \X team
                          /\ <<Dots!Source, n>>[2] = n
      OBVIOUS
    <3>2. \A c \in {Dots!Source} \X team : c[2] \in team
      OBVIOUS
    <3>. QED
      BY <3>1, <3>2
  <2>. QED
    BY <1>1, <2>1, <2>2, <2>3 DEF Dots!Node
<1>8. goal \in Dots!Node
  <2>1. \/ goal = Dots!Source
        \/ goal # Dots!Source /\ ~Dots!OpenMP
    BY <1>7
  <2>. QED
    BY <1>1, <1>6, <2>1 DEF Dots!Node, LeadsOn
<1>. QED
  BY <1>1, <1>3, <1>4, <1>6, <1>7, <1>8 DEF NetFacts, Dots!Node

(* A message moves in one channel, or in one node.                          *)
InChannel(q, r, c) ==
  /\ DotQueues(q) /\ DotQueues(r) /\ DOMAIN r = DOMAIN q /\ c \in DOMAIN q
  /\ \A d \in DOMAIN q : d # c => r[d] = q[d]
InNode(h, g, n) ==
  /\ DotNodes(h) /\ DotNodes(g) /\ DOMAIN g = DOMAIN h /\ n \in DOMAIN h
  /\ \A m \in DOMAIN h : m # n => g[m] = h[m]

(* How often an item is in the channels is a number.                        *)
LEMMA QueuedType == \A q, i : DotQueues(q) => Queued(q, i) \in Nat
<1>0. SUFFICES ASSUME NEW q, NEW i, DotQueues(q) PROVE Queued(q, i) \in Nat
  OBVIOUS
<1>1. PICK f : f = QueuedOf(q, i)
  OBVIOUS
<1>2. \A c \in DOMAIN q : f[c] \in Nat
  BY <1>0, <1>1, QueueCounts DEF QueuedOf, DotQueues
<1>. QED
  BY <1>0, <1>1, <1>2, SumType DEF Queued, DotQueues

(* How often an item is held is a number.                                   *)
LEMMA HeldType == \A h, i : DotNodes(h) => Held(h, i) \in Nat
<1>0. SUFFICES ASSUME NEW h, NEW i, DotNodes(h) PROVE Held(h, i) \in Nat
  OBVIOUS
<1>1. PICK f : f = HeldOf(h, i)
  OBVIOUS
<1>2. \A n \in DOMAIN h : f[n] \in Nat
  BY <1>1 DEF HeldOf
<1>. QED
  BY <1>0, <1>1, <1>2, SumType DEF Held, DotNodes

(* The items in the channels when those of one channel change.              *)
LEMMA QueuedChange ==
  \A q, r, c, i : InChannel(q, r, c) =>
    Queued(r, i) = Queued(q, i) + (Occurs(r[c], i) - Occurs(q[c], i))
<1>0. SUFFICES ASSUME NEW q, NEW r, NEW c, NEW i, InChannel(q, r, c)
               PROVE  Queued(r, i) = Queued(q, i) + (Occurs(r[c], i) - Occurs(q[c], i))
  OBVIOUS
<1>1. PICK f, g : f = QueuedOf(q, i) /\ g = QueuedOf(r, i)
  OBVIOUS
<1>2. \A d \in DOMAIN q : /\ f[d] = Occurs(q[d], i) /\ g[d] = Occurs(r[d], i)
                          /\ Occurs(q[d], i) \in Nat /\ Occurs(r[d], i) \in Nat
  BY <1>0, <1>1, QueueCounts DEF QueuedOf, InChannel, DotQueues
<1>3. /\ \A d \in DOMAIN q : f[d] \in Int /\ g[d] \in Int
      /\ \A d \in DOMAIN q \ {c} : f[d] = g[d]
      /\ IsFiniteSet(DOMAIN q) /\ c \in DOMAIN q /\ DOMAIN r = DOMAIN q
  BY <1>0, <1>2 DEF InChannel, DotQueues
<1>4. SumOver(g, DOMAIN q) = SumOver(f, DOMAIN q) + (g[c] - f[c])
  BY <1>3, SumChange
<1>. QED
  BY <1>1, <1>2, <1>3, <1>4 DEF Queued

(* The items held when the one of a node changes.                           *)
LEMMA HeldChange ==
  \A h, g, n, i : InNode(h, g, n) =>
    Held(g, i) = Held(h, i) + ((IF g[n] = i THEN 1 ELSE 0) - (IF h[n] = i THEN 1 ELSE 0))
<1>0. SUFFICES ASSUME NEW h, NEW g, NEW n, NEW i, InNode(h, g, n)
               PROVE  Held(g, i) = Held(h, i) + ((IF g[n] = i THEN 1 ELSE 0)
                                                   - (IF h[n] = i THEN 1 ELSE 0))
  OBVIOUS
<1>1. PICK f, k : f = HeldOf(h, i) /\ k = HeldOf(g, i)
  OBVIOUS
<1>2. \A m \in DOMAIN h : /\ f[m] = (IF h[m] = i THEN 1 ELSE 0)
                          /\ k[m] = (IF g[m] = i THEN 1 ELSE 0)
  BY <1>0, <1>1 DEF HeldOf, InNode
<1>3. /\ \A m \in DOMAIN h : f[m] \in Int /\ k[m] \in Int
      /\ \A m \in DOMAIN h \ {n} : f[m] = k[m]
      /\ IsFiniteSet(DOMAIN h) /\ n \in DOMAIN h /\ DOMAIN g = DOMAIN h
  BY <1>0, <1>2 DEF InNode, DotNodes
<1>4. SumOver(k, DOMAIN h) = SumOver(f, DOMAIN h) + (k[n] - f[n])
  BY <1>3, SumChange
<1>. QED
  BY <1>1, <1>2, <1>3, <1>4 DEF Held

(* An item sent down a channel.                                             *)
LEMMA DotPut ==
  ASSUME NEW q, DotQueues(q), NEW c \in DOMAIN q, NEW m \in 0 .. length
  PROVE  /\ DotQueues(Dots!Put(q, c, m)) /\ DOMAIN Dots!Put(q, c, m) = DOMAIN q
         /\ Dots!Put(q, c, m)[c] = Append(q[c], m)
         /\ \A d \in DOMAIN q : d # c => Dots!Put(q, c, m)[d] = q[d]
         /\ \A i \in 1 .. length :
              Queued(Dots!Put(q, c, m), i) = Queued(q, i) + (IF m = i THEN 1 ELSE 0)
<1>1. PICK r : r = Dots!Put(q, c, m)
  OBVIOUS
<1>2. /\ DOMAIN r = DOMAIN q /\ r[c] = Append(q[c], m)
      /\ \A d \in DOMAIN q : d # c => r[d] = q[d]
  BY <1>1 DEF Dots!Put
<1>3. \A d \in DOMAIN q : q[d] \in Seq(0 .. length)
  BY DEF DotQueues
<1>4. q[c] \in Seq(0 .. length)
  BY <1>3
<1>5. Append(q[c], m) \in Seq(0 .. length)
  BY <1>4, QueueAppend
<1>6. DotQueues(r)
  <2>1. \A d \in DOMAIN r : r[d] \in Seq(0 .. length)
    BY <1>2, <1>3, <1>5
  <2>. QED
    BY <1>2, <2>1 DEF DotQueues
<1>7. InChannel(q, r, c)
  BY <1>2, <1>6 DEF InChannel
<1>8. ASSUME NEW i \in 1 .. length
      PROVE  Queued(r, i) = Queued(q, i) + (IF m = i THEN 1 ELSE 0)
  <2>1. /\ Queued(r, i) = Queued(q, i) + (Occurs(r[c], i) - Occurs(q[c], i))
        /\ Queued(q, i) \in Nat
    BY <1>7, QueuedChange, QueuedType
  <2>2. Occurs(r[c], i) = Occurs(q[c], i) + (IF m = i THEN 1 ELSE 0) /\ Occurs(q[c], i) \in Nat
    BY <1>2, <1>4, QueueAppend, QueueCounts, FarmAssumption
  <2>3. \A a, b \in Nat : a + ((b + (IF m = i THEN 1 ELSE 0)) - b) = a + (IF m = i THEN 1 ELSE 0)
    OBVIOUS
  <2>. QED
    BY <2>1, <2>2, <2>3
<1>. QED
  BY <1>1, <1>2, <1>6, <1>8

(* A message taken from a channel.                                          *)
Taken(q, c) == [q EXCEPT ![c] = Tail(@)]

(* It is the front item that leaves the channel, and nothing else moves.    *)
LEMMA DotTake ==
  ASSUME NEW q, DotQueues(q), NEW c \in DOMAIN q, q[c] # <<>>
  PROVE  /\ DotQueues(Taken(q, c)) /\ DOMAIN Taken(q, c) = DOMAIN q
         /\ Taken(q, c)[c] = Tail(q[c]) /\ Head(q[c]) \in 0 .. length
         /\ \A d \in DOMAIN q : d # c => Taken(q, c)[d] = q[d]
         /\ \A i \in 1 .. length :
              Queued(q, i) = Queued(Taken(q, c), i) + (IF Head(q[c]) = i THEN 1 ELSE 0)
<1>1. PICK r : r = Taken(q, c)
  OBVIOUS
<1>2. /\ DOMAIN r = DOMAIN q /\ r[c] = Tail(q[c])
      /\ \A d \in DOMAIN q : d # c => r[d] = q[d]
  BY <1>1 DEF Taken
<1>3. \A d \in DOMAIN q : q[d] \in Seq(0 .. length)
  BY DEF DotQueues
<1>4. q[c] \in Seq(0 .. length)
  BY <1>3
<1>5. Tail(q[c]) \in Seq(0 .. length) /\ Head(q[c]) \in 0 .. length
  BY <1>4, TailRange
<1>6. DotQueues(r)
  <2>1. \A d \in DOMAIN r : r[d] \in Seq(0 .. length)
    BY <1>2, <1>3, <1>5
  <2>. QED
    BY <1>2, <2>1 DEF DotQueues
<1>7. InChannel(q, r, c)
  BY <1>2, <1>6 DEF InChannel
<1>8. ASSUME NEW i \in 1 .. length
      PROVE  Queued(q, i) = Queued(r, i) + (IF Head(q[c]) = i THEN 1 ELSE 0)
  <2>1. /\ Queued(r, i) = Queued(q, i) + (Occurs(r[c], i) - Occurs(q[c], i))
        /\ Queued(q, i) \in Nat /\ Queued(r, i) \in Nat
    BY <1>6, <1>7, QueuedChange, QueuedType
  <2>2. /\ Occurs(q[c], i) = Occurs(r[c], i) + (IF Head(q[c]) = i THEN 1 ELSE 0)
        /\ Occurs(r[c], i) \in Nat
    BY <1>2, <1>4, <1>5, QueueTail, QueueCounts, FarmAssumption
  <2>3. \A a, b, d \in Nat :
          d = a + (b - (b + (IF Head(q[c]) = i THEN 1 ELSE 0)))
          => a = d + (IF Head(q[c]) = i THEN 1 ELSE 0)
    OBVIOUS
  <2>. QED
    BY <2>1, <2>2, <2>3
<1>. QED
  BY <1>1, <1>2, <1>5, <1>6, <1>8

(* EOS sent down every channel of a node: no item moves.                    *)
LEMMA DotBroadcast ==
  ASSUME NEW q, DotQueues(q), NEW n
  PROVE  /\ DotQueues(Dots!Broadcast(q, n)) /\ DOMAIN Dots!Broadcast(q, n) = DOMAIN q
         /\ \A d \in DOMAIN q :
              Dots!Broadcast(q, n)[d] = IF d \in Dots!Out(n) THEN Append(q[d], 0) ELSE q[d]
         /\ \A i \in 1 .. length : Queued(Dots!Broadcast(q, n), i) = Queued(q, i)
<1>1. PICK r : r = Dots!Broadcast(q, n)
  OBVIOUS
<1>2. /\ DOMAIN r = DOMAIN q
      /\ \A d \in DOMAIN q : r[d] = IF d \in Dots!Out(n) THEN Append(q[d], 0) ELSE q[d]
  BY <1>1 DEF Dots!Broadcast, Dots!EOS
<1>3. \A d \in DOMAIN q : q[d] \in Seq(0 .. length)
  BY DEF DotQueues
<1>4. ASSUME NEW d \in DOMAIN q
      PROVE  /\ r[d] \in Seq(0 .. length)
             /\ \A i \in 1 .. length : Occurs(r[d], i) = Occurs(q[d], i)
  <2>1. q[d] \in Seq(0 .. length) /\ 0 \in 0 .. length
    BY <1>3, FarmAssumption
  <2>2. /\ Append(q[d], 0) \in Seq(0 .. length)
        /\ \A i \in 1 .. length : Occurs(Append(q[d], 0), i) = Occurs(q[d], i)
    <3>1. Append(q[d], 0) \in Seq(0 .. length)
      BY <2>1, QueueAppend
    <3>2. ASSUME NEW i \in 1 .. length
          PROVE  Occurs(Append(q[d], 0), i) = Occurs(q[d], i)
      <4>1. /\ Occurs(Append(q[d], 0), i) = Occurs(q[d], i) + (IF 0 = i THEN 1 ELSE 0)
            /\ Occurs(q[d], i) \in Nat /\ 0 # i
        BY <2>1, QueueAppend, QueueCounts, FarmAssumption
      <4>. QED
        BY <4>1
    <3>. QED
      BY <3>1, <3>2
  <2>. QED
    BY <1>2, <2>1, <2>2
<1>5. DotQueues(r)
  <2>1. \A d \in DOMAIN r : r[d] \in Seq(0 .. length)
    BY <1>2, <1>4
  <2>. QED
    BY <1>2, <2>1 DEF DotQueues
<1>6. ASSUME NEW i \in 1 .. length
      PROVE  Queued(r, i) = Queued(q, i)
  <2>1. PICK f, g : f = QueuedOf(q, i) /\ g = QueuedOf(r, i)
    OBVIOUS
  <2>2. \A d \in DOMAIN q : g[d] = f[d]
    BY <1>2, <1>4, <2>1 DEF QueuedOf
  <2>3. SumOver(g, DOMAIN q) = SumOver(f, DOMAIN q)
    BY <2>2, SumEqual DEF DotQueues
  <2>. QED
    BY <1>2, <2>1, <2>3 DEF Queued
<1>. QED
  BY <1>1, <1>2, <1>5, <1>6

(* A node takes an item or is done with it.                                 *)
Holding(h, n, m) == [h EXCEPT ![n] = m]

(* Only what the node itself holds changes.                                 *)
LEMMA DotHold ==
  ASSUME NEW h, DotNodes(h), NEW n \in DOMAIN h, NEW m \in 0 .. length
  PROVE  /\ DotNodes(Holding(h, n, m)) /\ DOMAIN Holding(h, n, m) = DOMAIN h
         /\ Holding(h, n, m)[n] = m
         /\ \A k \in DOMAIN h : k # n => Holding(h, n, m)[k] = h[k]
         /\ \A i \in 1 .. length :
              Held(Holding(h, n, m), i) + (IF h[n] = i THEN 1 ELSE 0)
                = Held(h, i) + (IF m = i THEN 1 ELSE 0)
<1>1. PICK g : g = Holding(h, n, m)
  OBVIOUS
<1>2. DOMAIN g = DOMAIN h /\ g[n] = m /\ \A k \in DOMAIN h : k # n => g[k] = h[k]
  BY <1>1 DEF Holding
<1>3. DotNodes(g)
  BY <1>2 DEF DotNodes
<1>4. InNode(h, g, n)
  BY <1>2, <1>3 DEF InNode
<1>5. ASSUME NEW i \in 1 .. length
      PROVE  Held(g, i) + (IF h[n] = i THEN 1 ELSE 0) = Held(h, i) + (IF m = i THEN 1 ELSE 0)
  <2>1. /\ Held(g, i) = Held(h, i) + ((IF m = i THEN 1 ELSE 0) - (IF h[n] = i THEN 1 ELSE 0))
        /\ Held(g, i) \in Nat /\ Held(h, i) \in Nat
    BY <1>2, <1>3, <1>4, HeldChange, HeldType
  <2>. QED
    BY <2>1
<1>. QED
  BY <1>1, <1>2, <1>3, <1>5

(* No step changes the network.                                             *)
LEMMA NetStays ==
  ASSUME program' = program
  PROVE  /\ Dots!net' = Dots!net /\ Dots!Node' = Dots!Node
         /\ Dots!OpenMP' = Dots!OpenMP
         /\ \A n : Dots!In(n)' = Dots!In(n) /\ Dots!Out(n)' = Dots!Out(n)
<1>1. Dots!net' = Dots!net
  BY DEF Dots!net
<1>. QED
  BY <1>1 DEF Dots!Node, Dots!OpenMP, Dots!In, Dots!Out

(* The input channels of a node that has ended have ended; a channel ends   *)
(* when the node that sends into it has finished.                           *)
LEMMA NodesUpstream ==
  ASSUME DotParts, ~Dots!OpenMP
  PROVE  /\ \A n \in Dots!Node : n \notin running => Dots!In(n) \subseteq eosFrom
         /\ \A c \in Dots!net.channels :
              c \in eosFrom => Finished(c[1]) /\ queue[c] = <<>>
BY DEF DotParts, NodesEnd, ChannelsEnd, Delivers, StateOf

(* When the sink has ended everything has: no channel, as far down the      *)
(* network as it may be, is still open.                                     *)
LEMMA AllEnded ==
  ASSUME DotParts, ~Dots!OpenMP, Dots!Over
  PROVE  /\ nsent > length /\ \A c \in Dots!net.channels : queue[c] = <<>>
         /\ \A n \in Dots!Node : held[n] = 0
<1>0. DotTypes /\ NodesEnd /\ NetFacts
  BY NetworkFacts DEF DotParts, DotTypes
<1>1. LeadsOn(Dots!net.channels, Dots!net.source, Dots!net.sink)
  BY <1>0 DEF NetFacts
<1>2. Dots!net.channels \subseteq eosFrom
  <2>. SUFFICES ASSUME NEW b \in Dots!net.channels, b \notin eosFrom PROVE FALSE
    OBVIOUS
  <2>. DEFINE T == {Depth(c) : c \in Dots!net.channels \ eosFrom}
  <2>1. \A c \in Dots!net.channels : Depth(c) \in 0 .. 3
    BY DEF Depth
  <2>2. T \in SUBSET (0 .. 3) /\ T # {}
    BY <2>1
  <2>3. PICK m \in T : \A x \in T : x <= m
    BY <2>2, Greatest
  <2>4. PICK c \in Dots!net.channels : c \notin eosFrom /\ Depth(c) = m
    BY <2>3
  <2>5. c \in Dots!In(c[2]) /\ c[2] \in Dots!Node
    BY <1>0 DEF Dots!In, NetFacts
  <2>6. CASE c[2] = Dots!net.sink
    BY <2>4, <2>5, <2>6, NodesUpstream DEF Dots!Over
  <2>7. CASE c[2] # Dots!net.sink
    <3>1. PICK d \in Dots!net.channels : d[1] = c[2] /\ Depth(c) < Depth(d)
      BY <1>1, <2>7 DEF LeadsOn
    <3>2. c[2] # Dots!net.source
      BY <1>1, <2>7 DEF LeadsOn
    <3>3. d \in eosFrom
      <4>. SUFFICES ASSUME d \notin eosFrom PROVE FALSE
        OBVIOUS
      <4>1. Depth(d) \in T
        OBVIOUS
      <4>2. Depth(d) <= Depth(c) /\ Depth(d) \in 0 .. 3 /\ Depth(c) \in 0 .. 3
        BY <2>1, <2>3, <2>4, <4>1
      <4>. QED
        BY <3>1, <4>2
    <3>4. c[2] \notin running
      BY <3>1, <3>2, <3>3, NodesUpstream DEF Finished
    <3>. QED
      BY <2>4, <2>5, <3>4, NodesUpstream
  <2>. QED
    BY <2>6, <2>7
<1>3. \A c \in Dots!net.channels : Finished(c[1]) /\ queue[c] = <<>>
  BY <1>2, NodesUpstream
<1>4. nsent > length
  <2>1. CASE Dots!net.sink = Dots!net.source
    BY <1>0, <2>1 DEF Dots!Over, NodesEnd
  <2>2. CASE Dots!net.sink # Dots!net.source
    <3>1. PICK c \in Dots!net.channels : c[1] = Dots!net.source
      BY <1>1, <2>2 DEF LeadsOn
    <3>. QED
      BY <1>3, <3>1 DEF Finished
  <2>. QED
    BY <2>1, <2>2
<1>5. ASSUME NEW n \in Dots!Node
      PROVE  held[n] = 0
  <2>1. CASE n = Dots!net.source \/ n = Dots!net.sink
    BY <1>0, <2>1 DEF NodesEnd
  <2>2. CASE n # Dots!net.source /\ n # Dots!net.sink
    <3>1. PICK c \in Dots!net.channels : n = c[1]
      BY <1>1, <2>2 DEF Dots!Node, LeadsOn
    <3>2. n \notin running
      BY <1>3, <2>2, <3>1 DEF Finished
    <3>. QED
      BY <1>0, <3>2 DEF NodesEnd
  <2>. QED
    BY <2>1, <2>2
<1>. QED
  BY <1>3, <1>4, <1>5

(* The same of the tasks of OpenMP, behind the barrier of their region.     *)
LEMMA RegionOver ==
  ASSUME DotParts, Dots!OpenMP
  PROVE  /\ \A c \in Dots!net.channels : queue[c] = <<>>
         /\ Dots!Over => nsent = length /\ pool = {} /\ running = {}
                         /\ \A n \in Dots!Node : held[n] = 0
         /\ ~Dots!Over => running = Dots!Node
<1>1. TeamWorks /\ NetFacts
  BY NetworkFacts DEF DotParts, DotTypes
<1>. QED
  BY <1>1 DEF TeamWorks, NetFacts, Dots!Over

(* Where every item is when the sink has ended.                             *)
LEMMA NothingLeft ==
  ASSUME DotParts, Dots!Over
  PROVE  /\ nsent >= length /\ pool = {} /\ \A c \in Dots!net.channels : queue[c] = <<>>
         /\ \A n \in Dots!Node : held[n] = 0
<1>1. CASE Dots!OpenMP
  <2>1. nsent = length /\ pool = {}
    BY <1>1, RegionOver
  <2>. QED
    BY <1>1, <2>1, RegionOver, FarmAssumption
<1>2. CASE ~Dots!OpenMP
  <2>1. nsent > length /\ nsent \in Nat
    BY <1>2, AllEnded, FarmAssumption DEF DotParts, DotTypes
  <2>2. pool = {}
    BY <1>2 DEF DotParts, NodesEnd
  <2>3. nsent >= length
    BY <2>1, FarmAssumption
  <2>. QED
    BY <1>2, <2>2, <2>3, AllEnded
<1>. QED
  BY <1>1, <1>2

(* When the sink has ended it has added up every item once.                 *)
LEMMA AllAdded == DotParts /\ Dots!Over => \A i \in 1 .. length : added[i] = 1
<1>0. SUFFICES ASSUME DotParts, Dots!Over, NEW i \in 1 .. length
               PROVE  added[i] = 1
  OBVIOUS
<1>1. DotTypes /\ DotOnce(i)
  BY <1>0 DEF DotParts
<1>2. /\ nsent >= length /\ pool = {} /\ \A c \in Dots!net.channels : queue[c] = <<>>
      /\ \A n \in Dots!Node : held[n] = 0
  BY <1>0, NothingLeft
<1>3. Queued(queue, i) = 0
  <2>1. PICK f : f = QueuedOf(queue, i)
    OBVIOUS
  <2>2. \A c \in DOMAIN queue : f[c] = 0
    <3>1. Occurs(<<>>, i) = 0
      BY AmongEmpty DEF Occurs
    <3>. QED
      BY <1>1, <1>2, <2>1, <3>1 DEF QueuedOf, DotTypes
  <2>. QED
    BY <1>1, <2>1, <2>2, SumZero DEF Queued, DotTypes, DotQueues
<1>4. Held(held, i) = 0
  <2>1. PICK f : f = HeldOf(held, i)
    OBVIOUS
  <2>2. \A n \in DOMAIN held : f[n] = 0
    BY <1>1, <1>2, <2>1, FarmAssumption DEF HeldOf, DotTypes
  <2>. QED
    BY <1>1, <2>1, <2>2, SumZero DEF Held, DotTypes, DotNodes
<1>5. /\ (IF i > nsent THEN 1 ELSE 0) = 0 /\ (IF i \in pool THEN 1 ELSE 0) = 0
      /\ added[i] \in Nat
  BY <1>1, <1>2, FarmAssumption DEF DotTypes
<1>. QED
  BY <1>1, <1>3, <1>4, <1>5 DEF DotOnce

(* The same in the next state.                                              *)
LEMMA AllAddedNext == (DotParts /\ Dots!Over => \A i \in 1 .. length : added[i] = 1)'
BY AllAdded, PTL

(* What a step may do to a channel: nothing, send an item or EOS, take the  *)
(* head; its node may finish.                                               *)
ChannelStep(d) ==
  \/ /\ queue'[d] = queue[d] /\ (d \in eosFrom' => d \in eosFrom)
     /\ Finished(d[1]) => Finished(d[1])'
  \/ /\ ~Finished(d[1]) /\ (d \in eosFrom' => d \in eosFrom)
     /\ \/ \E m \in 1 .. length : queue'[d] = Append(queue[d], m)
        \/ Finished(d[1])' /\ queue'[d] = Append(queue[d], 0)
  \/ /\ queue[d] # <<>> /\ queue'[d] = Tail(queue[d])
     /\ d \in eosFrom' => d \in eosFrom \/ Head(queue[d]) = 0
     /\ Finished(d[1]) => Finished(d[1])'

(* All these keep EOS behind the last item.                                 *)
LEMMA ChannelsEndStep ==
  ASSUME DotTypes, ChannelsEnd, program' = program,
         \A d \in Dots!net.channels : ChannelStep(d)
  PROVE  ChannelsEnd'
<1>1. Dots!net' = Dots!net
  BY NetStays
<1>. SUFFICES ASSUME NEW d \in Dots!net.channels
              PROVE  Delivers(queue'[d], StateOf(d[1])', d \in eosFrom')
  BY <1>1 DEF ChannelsEnd
<1>2. PICK q \in Seq(0 .. length) : q = queue[d]
  BY DEF DotTypes, DotQueues
<1>3. PICK e \in BOOLEAN : e = (d \in eosFrom)
  <2>1. (d \in eosFrom) \in BOOLEAN
    OBVIOUS
  <2>. QED
    BY <2>1
<1>4. PICK e2 \in BOOLEAN : e2 = (d \in eosFrom')
  <2>1. (d \in eosFrom') \in BOOLEAN
    OBVIOUS
  <2>. QED
    BY <2>1
<1>5. PICK s : s = StateOf(d[1])
  OBVIOUS
<1>6. PICK s2 : s2 = StateOf(d[1])'
  OBVIOUS
<1>7. Delivers(q, s, e)
  BY <1>2, <1>3, <1>5 DEF ChannelsEnd
<1>8. (s = "ended" <=> Finished(d[1])) /\ (s2 = "ended" <=> Finished(d[1])')
  BY <1>5, <1>6 DEF StateOf
<1>9. ChannelStep(d)
  OBVIOUS
<1>10. CASE queue'[d] = queue[d] /\ (d \in eosFrom' => d \in eosFrom)
            /\ (Finished(d[1]) => Finished(d[1])')
  <2>1. Delivers(q, s2, e2)
    BY <1>3, <1>4, <1>7, <1>8, <1>10 DEF Delivers
  <2>. QED
    BY <1>2, <1>4, <1>6, <1>10, <2>1
<1>11. CASE ~Finished(d[1]) /\ (d \in eosFrom' => d \in eosFrom)
            /\ \E m \in 1 .. length : queue'[d] = Append(queue[d], m)
  <2>1. PICK m \in 1 .. length : queue'[d] = Append(q, m)
    BY <1>2, <1>11
  <2>2. ~e /\ Delivers(Append(q, m), s2, FALSE)
    BY <1>7, <1>8, <1>11, DeliversMore
  <2>3. e2 = FALSE
    BY <1>3, <1>4, <1>11, <2>2
  <2>. QED
    BY <1>4, <1>6, <2>1, <2>2, <2>3
<1>12. CASE ~Finished(d[1]) /\ (d \in eosFrom' => d \in eosFrom)
            /\ Finished(d[1])' /\ queue'[d] = Append(queue[d], 0)
  <2>1. ~e /\ Delivers(Append(q, 0), s2, FALSE)
    BY <1>7, <1>8, <1>12, DeliversMore
  <2>2. e2 = FALSE
    BY <1>3, <1>4, <1>12, <2>1
  <2>. QED
    BY <1>2, <1>4, <1>6, <1>12, <2>1, <2>2
<1>13. CASE queue[d] # <<>> /\ queue'[d] = Tail(queue[d])
            /\ (d \in eosFrom' => d \in eosFrom \/ Head(queue[d]) = 0)
            /\ (Finished(d[1]) => Finished(d[1])')
  <2>1. ~e /\ Delivers(Tail(q), s, FALSE) /\ (Head(q) = 0 => Delivers(Tail(q), s, TRUE))
    BY <1>2, <1>7, <1>13, DeliversTail
  <2>2. Delivers(Tail(q), s, e2)
    BY <1>2, <1>3, <1>4, <1>13, <2>1
  <2>3. Delivers(Tail(q), s2, e2)
    BY <1>8, <1>13, <2>2 DEF Delivers
  <2>. QED
    BY <1>2, <1>4, <1>6, <1>13, <2>3
<1>. QED
  BY <1>9, <1>10, <1>11, <1>12, <1>13 DEF ChannelStep

(* The source sends the next item, or adds it up itself.                    *)
LEMMA DotSendStep ==
  ASSUME DotParts, Dots!Send
  PROVE  /\ DotParts' /\ running' = running /\ program' = program
         /\ \/ added' = added
            \/ /\ ~Dots!Over
               /\ \E i \in 1 .. length : added[i] = 0 /\ added' = [added EXCEPT ![i] = 1]
<1>. DEFINE m == nsent + 1
            Sent ==
      /\ DotQueues(queue') /\ DOMAIN queue' = DOMAIN queue
      /\ added' \in [1 .. length -> Nat]
      /\ \A d \in Dots!net.channels : ChannelStep(d)
      /\ \A i \in 1 .. length : Queued(queue', i) + added'[i]
                                  = Queued(queue, i) + added[i] + (IF i = m THEN 1 ELSE 0)
<1>1. /\ ~Dots!OpenMP /\ nsent < length /\ nsent' = m
      /\ \/ Dots!Out(Dots!net.source) = {} /\ added' = [added EXCEPT ![m] = @ + 1]
            /\ queue' = queue
         \/ /\ added' = added
            /\ \E c \in Dots!Out(Dots!net.source) : queue' = Dots!Put(queue, c, m)
      /\ UNCHANGED <<program, held, eosFrom, running, pool, vectors>>
  BY DEF Dots!Send, Dots!Added
<1>2. DotTypes /\ ChannelsEnd /\ NodesEnd /\ NetFacts /\ \A i \in 1 .. length : DotOnce(i)
  BY <1>1, NetworkFacts DEF DotParts, DotTypes
<1>3. Dots!net' = Dots!net /\ Dots!Node' = Dots!Node /\ ~Dots!OpenMP'
      /\ \A n : Dots!In(n)' = Dots!In(n)
  BY <1>1, NetStays
<1>4. nsent \in Nat /\ m \in 1 .. length /\ m \in 0 .. length /\ ~(nsent > length) /\ ~(m > length)
      /\ nsent' \in 0 .. length + 1
  BY <1>1, <1>2, FarmAssumption DEF DotTypes
<1>5. \A n : Finished(n)' = Finished(n)
  BY <1>1, <1>3, <1>4 DEF Finished
<1>6. DotQueues(queue) /\ DOMAIN queue = Dots!net.channels /\ added \in [1 .. length -> Nat]
  BY <1>2 DEF DotTypes
<1>7. Sent
  <2>1. CASE added' = [added EXCEPT ![m] = @ + 1] /\ queue' = queue
    <3>1. /\ \A i \in 1 .. length : added'[i] = added[i] + (IF i = m THEN 1 ELSE 0)
          /\ added' \in [1 .. length -> Nat]
      BY <1>4, <1>6, <2>1
    <3>2. \A i \in 1 .. length : Queued(queue', i) = Queued(queue, i) /\ Queued(queue, i) \in Nat
      BY <1>6, <2>1, QueuedType
    <3>3. ASSUME NEW i \in 1 .. length
          PROVE  Queued(queue', i) + added'[i]
                   = Queued(queue, i) + added[i] + (IF i = m THEN 1 ELSE 0)
      <4>1. added'[i] = added[i] + (IF i = m THEN 1 ELSE 0) /\ added[i] \in Nat
        BY <1>6, <3>1
      <4>2. Queued(queue', i) = Queued(queue, i) /\ Queued(queue, i) \in Nat
        BY <3>2
      <4>. QED
        BY <4>1, <4>2
    <3>4. \A d \in Dots!net.channels : ChannelStep(d)
      BY <1>1, <1>5, <2>1 DEF ChannelStep
    <3>. QED
      BY <1>6, <2>1, <3>1, <3>3, <3>4
  <2>2. ASSUME NEW c \in Dots!Out(Dots!net.source), added' = added,
               queue' = Dots!Put(queue, c, m)
        PROVE  Sent
    <3>1. c \in DOMAIN queue /\ c[1] = Dots!net.source
      BY <1>6 DEF Dots!Out
    <3>2. /\ DotQueues(queue') /\ DOMAIN queue' = DOMAIN queue
          /\ queue'[c] = Append(queue[c], m)
          /\ \A d \in DOMAIN queue : d # c => queue'[d] = queue[d]
          /\ \A i \in 1 .. length : Queued(queue', i) = Queued(queue, i) + (IF m = i THEN 1 ELSE 0)
      BY <1>4, <1>6, <2>2, <3>1, DotPut
    <3>3. ASSUME NEW i \in 1 .. length
          PROVE  Queued(queue', i) + added'[i]
                   = Queued(queue, i) + added[i] + (IF i = m THEN 1 ELSE 0)
      <4>1. added'[i] = added[i] /\ added[i] \in Nat /\ Queued(queue, i) \in Nat
        BY <1>6, <2>2, QueuedType
      <4>2. Queued(queue', i) = Queued(queue, i) + (IF i = m THEN 1 ELSE 0)
        BY <3>2
      <4>. QED
        BY <4>1, <4>2
    <3>4. ASSUME NEW d \in Dots!net.channels
          PROVE  ChannelStep(d)
      <4>1. CASE d = c
        <5>1. ~Finished(d[1])
          BY <1>4, <3>1, <4>1 DEF Finished
        <5>. QED
          BY <1>1, <1>4, <3>2, <4>1, <5>1 DEF ChannelStep
      <4>2. CASE d # c
        BY <1>1, <1>5, <1>6, <3>2, <4>2 DEF ChannelStep
      <4>. QED
        BY <4>1, <4>2
    <3>. QED
      BY <1>6, <2>2, <3>2, <3>3, <3>4
  <2>. QED
    BY <1>1, <2>1, <2>2
<1>8. DotTypes'
  BY <1>1, <1>2, <1>3, <1>4, <1>7 DEF DotTypes
<1>9. ChannelsEnd'
  BY <1>1, <1>2, <1>7, ChannelsEndStep
<1>10. NodesEnd'
  <2>1. Dots!net.source \in running
    BY <1>2, <1>4 DEF NodesEnd
  <2>. QED
    BY <1>1, <1>2, <1>3, <2>1 DEF NodesEnd
<1>11. ASSUME NEW i \in 1 .. length
       PROVE  DotOnce(i)'
  <2>1. PICK q, q2, a, a2, h \in Nat :
          q = Queued(queue, i) /\ q2 = Queued(queue', i) /\ a = added[i] /\ a2 = added'[i]
          /\ h = Held(held, i)
    BY <1>2, <1>6, <1>7, QueuedType, HeldType DEF DotTypes
  <2>2. (IF i > nsent THEN 1 ELSE 0) + (IF i \in pool THEN 1 ELSE 0) + q + h + a = 1
    BY <1>2, <2>1 DEF DotOnce
  <2>3. q2 + a2 = q + a + (IF i = m THEN 1 ELSE 0)
    BY <1>7, <2>1
  <2>4. (IF i > nsent THEN 1 ELSE 0) = (IF i > m THEN 1 ELSE 0) + (IF i = m THEN 1 ELSE 0)
    BY <1>4
  <2>5. (IF i > m THEN 1 ELSE 0) + (IF i \in pool THEN 1 ELSE 0) + q2 + h + a2 = 1
    <3>. HIDE DEF m
    <3>. QED BY <2>1, <2>2, <2>3, <2>4
  <2>. QED
    BY <1>1, <2>1, <2>5 DEF DotOnce
<1>12. \/ added' = added
       \/ /\ ~Dots!Over
          /\ \E i \in 1 .. length : added[i] = 0 /\ added' = [added EXCEPT ![i] = 1]
  <2>. SUFFICES ASSUME Dots!Out(Dots!net.source) = {}, added' = [added EXCEPT ![m] = @ + 1]
                PROVE  /\ ~Dots!Over
                       /\ added[m] = 0 /\ added' = [added EXCEPT ![m] = 1]
    BY <1>1, <1>4
  <2>1. Dots!net.sink = Dots!net.source
    BY <1>1, <1>2 DEF NetFacts, LeadsOn, Dots!Out
  <2>2. ~Dots!Over
    BY <1>2, <1>4, <2>1 DEF NodesEnd, Dots!Over
  <2>3. added[m] = 0
    <3>1. DotOnce(m)
      BY <1>2, <1>4
    <3>2. /\ Queued(queue, m) \in Nat /\ Held(held, m) \in Nat /\ added[m] \in Nat
          /\ (IF m > nsent THEN 1 ELSE 0) = 1
      BY <1>2, <1>4, <1>6, QueuedType, HeldType DEF DotTypes
    <3>. QED
      BY <3>1, <3>2 DEF DotOnce
  <2>. QED
    BY <1>6, <2>2, <2>3
<1>13. DotParts'
  BY <1>3, <1>8, <1>9, <1>10, <1>11 DEF DotParts
<1>. QED
  BY <1>1, <1>12, <1>13

(* The source has sent everything: EOS behind it.                           *)
LEMMA DotSendEOSStep ==
  ASSUME DotParts, Dots!SendEOS
  PROVE  DotParts' /\ running' \subseteq running /\ program' = program /\ added' = added
<1>1. /\ ~Dots!OpenMP /\ nsent = length /\ nsent' = nsent + 1
      /\ queue' = Dots!Broadcast(queue, Dots!net.source)
      /\ running' = IF Dots!net.alive THEN running ELSE running \ {Dots!net.source}
      /\ program' = program /\ held' = held /\ eosFrom' = eosFrom /\ pool' = pool
      /\ added' = added
  BY DEF Dots!SendEOS
<1>2. DotTypes /\ ChannelsEnd /\ NodesEnd /\ NetFacts /\ \A i \in 1 .. length : DotOnce(i)
  BY <1>1, NetworkFacts DEF DotParts, DotTypes
<1>3. Dots!net' = Dots!net /\ Dots!Node' = Dots!Node /\ ~Dots!OpenMP'
      /\ \A n : Dots!In(n)' = Dots!In(n)
  BY <1>1, NetStays
<1>4. nsent \in Nat /\ ~(nsent > length) /\ nsent' > length /\ nsent' \in 0 .. length + 1
  BY <1>1, FarmAssumption
<1>5. DotQueues(queue) /\ DOMAIN queue = Dots!net.channels
  BY <1>2 DEF DotTypes
<1>6. /\ DotQueues(queue') /\ DOMAIN queue' = DOMAIN queue
      /\ \A d \in DOMAIN queue :
           queue'[d] = IF d \in Dots!Out(Dots!net.source) THEN Append(queue[d], 0) ELSE queue[d]
      /\ \A i \in 1 .. length : Queued(queue', i) = Queued(queue, i)
  BY <1>1, <1>5, DotBroadcast
<1>7. ASSUME NEW d \in Dots!net.channels
      PROVE  ChannelStep(d)
  <2>1. CASE d[1] = Dots!net.source
    <3>1. d \in Dots!Out(Dots!net.source)
      BY <2>1 DEF Dots!Out
    <3>2. ~Finished(d[1]) /\ Finished(d[1])'
      BY <1>3, <1>4, <2>1 DEF Finished
    <3>. QED
      BY <1>1, <1>5, <1>6, <3>1, <3>2 DEF ChannelStep
  <2>2. CASE d[1] # Dots!net.source
    <3>1. d \notin Dots!Out(Dots!net.source)
      BY <2>2 DEF Dots!Out
    <3>2. Finished(d[1]) => Finished(d[1])'
      BY <1>1, <1>3, <2>2 DEF Finished
    <3>. QED
      BY <1>1, <1>5, <1>6, <3>1, <3>2 DEF ChannelStep
  <2>. QED
    BY <2>1, <2>2
<1>8. DotTypes'
  BY <1>1, <1>2, <1>3, <1>4, <1>6 DEF DotTypes
<1>9. ChannelsEnd'
  BY <1>1, <1>2, <1>7, ChannelsEndStep
<1>10. NodesEnd'
  <2>1. ASSUME NEW n \in Dots!Node, n \notin running'
        PROVE  held[n] = 0 /\ Dots!In(n) \subseteq eosFrom
    <3>1. CASE n \notin running
      BY <1>2, <3>1 DEF NodesEnd
    <3>2. CASE n \in running
      <4>1. n = Dots!net.source /\ ~Dots!net.alive
        BY <1>1, <2>1, <3>2
      <4>2. Dots!In(n) = {}
        BY <1>1, <1>2, <4>1 DEF NetFacts
      <4>. QED
        BY <1>2, <4>1, <4>2 DEF NodesEnd
    <3>. QED
      BY <3>1, <3>2
  <2>. QED
    BY <1>1, <1>2, <1>3, <1>4, <2>1 DEF NodesEnd
<1>11. ASSUME NEW i \in 1 .. length
       PROVE  DotOnce(i)'
  <2>1. (IF i > nsent THEN 1 ELSE 0) = 0 /\ (IF i > nsent' THEN 1 ELSE 0) = 0
    BY <1>1, <1>4
  <2>2. (IF i > nsent THEN 1 ELSE 0) + (IF i \in pool THEN 1 ELSE 0) + Queued(queue, i)
           + Held(held, i) + added[i] = 1
    BY <1>2 DEF DotOnce
  <2>. QED
    BY <1>1, <1>6, <2>1, <2>2 DEF DotOnce
<1>12. DotParts'
  BY <1>3, <1>8, <1>9, <1>10, <1>11 DEF DotParts
<1>. QED
  BY <1>1, <1>12

(* The sink adds an item up.                                                *)
LEMMA DotSumStep ==
  ASSUME DotParts, NEW c \in Dots!net.channels, Dots!Sum(c)
  PROVE  /\ DotParts' /\ running' = running /\ program' = program /\ ~Dots!Over
         /\ \E i \in 1 .. length : added[i] = 0 /\ added' = [added EXCEPT ![i] = 1]
<1>. DEFINE m == Head(queue[c])
<1>1. /\ ~Dots!OpenMP /\ queue[c] # <<>> /\ m # 0 /\ c[2] = Dots!net.sink /\ c[2] \in running
      /\ added' = [added EXCEPT ![m] = @ + 1] /\ queue' = Taken(queue, c)
      /\ nsent' = nsent /\ running' = running
      /\ program' = program /\ held' = held /\ eosFrom' = eosFrom /\ pool' = pool
  BY DEF Dots!Sum, Dots!Receives, Dots!Added, Dots!EOS, Taken
<1>2. DotTypes /\ ChannelsEnd /\ NodesEnd /\ NetFacts /\ \A i \in 1 .. length : DotOnce(i)
  BY <1>1, NetworkFacts DEF DotParts, DotTypes
<1>3. Dots!net' = Dots!net /\ Dots!Node' = Dots!Node /\ ~Dots!OpenMP'
      /\ \A n : Dots!In(n)' = Dots!In(n)
  BY <1>1, NetStays
<1>4. /\ DotQueues(queue) /\ DOMAIN queue = Dots!net.channels /\ c \in DOMAIN queue
      /\ added \in [1 .. length -> Nat]
  BY <1>2 DEF DotTypes
<1>5. /\ DotQueues(queue') /\ DOMAIN queue' = DOMAIN queue
      /\ queue'[c] = Tail(queue[c]) /\ m \in 0 .. length
      /\ \A d \in DOMAIN queue : d # c => queue'[d] = queue[d]
      /\ \A i \in 1 .. length :
           Queued(queue, i) = Queued(queue', i) + (IF m = i THEN 1 ELSE 0)
  <2>1. /\ DotQueues(Taken(queue, c)) /\ DOMAIN Taken(queue, c) = DOMAIN queue
        /\ Taken(queue, c)[c] = Tail(queue[c]) /\ Head(queue[c]) \in 0 .. length
        /\ \A d \in DOMAIN queue : d # c => Taken(queue, c)[d] = queue[d]
        /\ \A i \in 1 .. length :
             Queued(queue, i) = Queued(Taken(queue, c), i) + (IF Head(queue[c]) = i THEN 1 ELSE 0)
    BY <1>1, <1>4, DotTake
  <2>. QED
    BY <1>1, <2>1
<1>6. m \in 1 .. length
  BY <1>1, <1>5, FarmAssumption
<1>7. ASSUME NEW d \in Dots!net.channels
      PROVE  ChannelStep(d)
  <2>1. Finished(d[1])' = Finished(d[1])
    BY <1>1, <1>3 DEF Finished
  <2>. QED
    BY <1>1, <1>4, <1>5, <2>1 DEF ChannelStep
<1>8. /\ \A i \in 1 .. length : added'[i] = added[i] + (IF i = m THEN 1 ELSE 0)
      /\ added' \in [1 .. length -> Nat]
  BY <1>1, <1>4, <1>6
<1>9. DotTypes'
  BY <1>1, <1>2, <1>3, <1>5, <1>8 DEF DotTypes
<1>10. ChannelsEnd'
  BY <1>1, <1>2, <1>7, ChannelsEndStep
<1>11. NodesEnd'
  BY <1>1, <1>2, <1>3 DEF NodesEnd
<1>12. ASSUME NEW i \in 1 .. length
       PROVE  /\ DotOnce(i)'
              /\ i = m => added[i] = 0
  <2>1. PICK q, q2, a, a2, h \in Nat :
          q = Queued(queue, i) /\ q2 = Queued(queue', i) /\ a = added[i] /\ a2 = added'[i]
          /\ h = Held(held, i)
    BY <1>2, <1>4, <1>5, <1>8, QueuedType, HeldType DEF DotTypes
  <2>2. (IF i > nsent THEN 1 ELSE 0) + (IF i \in pool THEN 1 ELSE 0) + q + h + a = 1
    BY <1>2, <2>1 DEF DotOnce
  <2>3. q = q2 + (IF i = m THEN 1 ELSE 0) /\ a2 = a + (IF i = m THEN 1 ELSE 0)
    BY <1>5, <1>8, <2>1
  <2>4. /\ (IF i > nsent THEN 1 ELSE 0) + (IF i \in pool THEN 1 ELSE 0) + q2 + h + a2 = 1
        /\ i = m => a = 0
    <3>1. \A s, p, x, x2, y, z, z2, e \in Nat :
            s + p + x + y + z = 1 /\ x = x2 + e /\ z2 = z + e
            => s + p + x2 + y + z2 = 1 /\ (e = 1 => z = 0)
      OBVIOUS
    <3>2. PICK s, p, e \in Nat : /\ s = (IF i > nsent THEN 1 ELSE 0)
                                 /\ p = (IF i \in pool THEN 1 ELSE 0)
                                 /\ e = (IF i = m THEN 1 ELSE 0)
      OBVIOUS
    <3>3. s + p + q + h + a = 1 /\ q = q2 + e /\ a2 = a + e
      BY <2>2, <2>3, <3>2
    <3>4. s + p + q2 + h + a2 = 1 /\ (e = 1 => a = 0)
      BY <3>1, <3>3
    <3>. QED
      BY <3>2, <3>4
  <2>. QED
    BY <1>1, <2>1, <2>4 DEF DotOnce
<1>13. DotParts'
  BY <1>3, <1>9, <1>10, <1>11, <1>12 DEF DotParts
<1>14. added[m] = 0 /\ added' = [added EXCEPT ![m] = 1]
  <2>1. added[m] = 0
    BY <1>6, <1>12
  <2>2. [added EXCEPT ![m] = @ + 1] = [added EXCEPT ![m] = 0 + 1] /\ 0 + 1 = 1
    BY <2>1
  <2>. QED
    BY <1>1, <2>1, <2>2
<1>. QED
  BY <1>1, <1>6, <1>13, <1>14 DEF Dots!Over

(* Sums of at most three places of an item.                                 *)
LEMMA OneMoves ==
  \A s, p, x, x2, y, y2, z, e \in Nat :
    /\ s + p + x + y + z = 1 /\ x = x2 + e /\ y2 = y + e => s + p + x2 + y2 + z = 1
    /\ s + p + x + y + z = 1 /\ x2 = x + e /\ y2 + e = y => s + p + x2 + y2 + z = 1
OBVIOUS

(* A node takes an item from a channel.                                     *)
LEMMA DotBeginStep ==
  ASSUME DotParts, NEW c \in Dots!net.channels, Dots!Begin(c)
  PROVE  DotParts' /\ running' = running /\ program' = program /\ added' = added
<1>. DEFINE m == Head(queue[c])
            n == c[2]
<1>1. /\ ~Dots!OpenMP /\ queue[c] # <<>> /\ m # 0 /\ n \in running
      /\ n # Dots!net.source /\ n # Dots!net.sink /\ held[n] = 0
      /\ held' = Holding(held, n, m) /\ queue' = Taken(queue, c)
      /\ nsent' = nsent /\ running' = running /\ added' = added
      /\ program' = program /\ eosFrom' = eosFrom /\ pool' = pool
  BY DEF Dots!Begin, Dots!Receives, Dots!EOS, Taken, Holding
<1>2. DotTypes /\ ChannelsEnd /\ NodesEnd /\ NetFacts /\ \A i \in 1 .. length : DotOnce(i)
  BY <1>1, NetworkFacts DEF DotParts, DotTypes
<1>3. Dots!net' = Dots!net /\ Dots!Node' = Dots!Node /\ ~Dots!OpenMP'
      /\ \A k : Dots!In(k)' = Dots!In(k)
  BY <1>1, NetStays
<1>4. /\ DotQueues(queue) /\ DOMAIN queue = Dots!net.channels /\ c \in DOMAIN queue
      /\ DotNodes(held) /\ DOMAIN held = Dots!Node /\ n \in DOMAIN held
      /\ added \in [1 .. length -> Nat]
  BY <1>2 DEF DotTypes, NetFacts
<1>5. /\ DotQueues(queue') /\ DOMAIN queue' = DOMAIN queue
      /\ queue'[c] = Tail(queue[c]) /\ m \in 0 .. length
      /\ \A d \in DOMAIN queue : d # c => queue'[d] = queue[d]
      /\ \A i \in 1 .. length :
           Queued(queue, i) = Queued(queue', i) + (IF m = i THEN 1 ELSE 0)
  <2>1. DotQueues(queue) /\ c \in DOMAIN queue /\ queue[c] # <<>>
    BY <1>1, <1>4
  <2>. QED
    BY <1>1, <2>1, DotTake
<1>6. /\ DotNodes(held') /\ DOMAIN held' = DOMAIN held /\ held'[n] = m
      /\ \A k \in DOMAIN held : k # n => held'[k] = held[k]
      /\ \A i \in 1 .. length : Held(held', i) + (IF held[n] = i THEN 1 ELSE 0)
                                  = Held(held, i) + (IF m = i THEN 1 ELSE 0)
  <2>1. DotNodes(held) /\ n \in DOMAIN held /\ m \in 0 .. length
    BY <1>4, <1>5
  <2>. QED
    BY <1>1, <2>1, DotHold
<1>7. ASSUME NEW d \in Dots!net.channels
      PROVE  ChannelStep(d)
  <2>1. Finished(d[1])' = Finished(d[1])
    BY <1>1, <1>3 DEF Finished
  <2>. QED
    BY <1>1, <1>4, <1>5, <2>1 DEF ChannelStep
<1>8. DotTypes'
  BY <1>1, <1>2, <1>3, <1>5, <1>6 DEF DotTypes
<1>9. ChannelsEnd'
  BY <1>1, <1>2, <1>7, ChannelsEndStep
<1>10. NodesEnd'
  <2>1. /\ held'[Dots!net.source] = 0 /\ held'[Dots!net.sink] = 0
        /\ \A k \in Dots!Node : k \notin running => held'[k] = 0
    BY <1>1, <1>2, <1>4, <1>6 DEF NodesEnd, NetFacts
  <2>. QED
    BY <1>1, <1>2, <1>3, <2>1 DEF NodesEnd
<1>11. ASSUME NEW i \in 1 .. length
       PROVE  DotOnce(i)'
  <2>1. PICK s, p, q, q2, a, h, h2, e \in Nat :
          q = Queued(queue, i) /\ q2 = Queued(queue', i) /\ a = added[i]
          /\ h = Held(held, i) /\ h2 = Held(held', i)
          /\ s = (IF i > nsent THEN 1 ELSE 0) /\ p = (IF i \in pool THEN 1 ELSE 0)
          /\ e = (IF m = i THEN 1 ELSE 0)
    BY <1>4, <1>5, <1>6, QueuedType, HeldType
  <2>2. s + p + q + h + a = 1
    BY <1>2, <2>1 DEF DotOnce
  <2>3. q = q2 + e
    BY <1>5, <2>1
  <2>4. h2 = h + e
    <3>1. Held(held', i) + (IF held[n] = i THEN 1 ELSE 0) = h + e
      BY <1>6, <2>1
    <3>2. (IF held[n] = i THEN 1 ELSE 0) = 0
      BY <1>1
    <3>. QED
      BY <2>1, <3>1, <3>2
  <2>5. s + p + q2 + h2 + a = 1
    BY <2>2, <2>3, <2>4, OneMoves
  <2>. QED
    BY <1>1, <2>1, <2>5 DEF DotOnce
<1>12. DotParts'
  BY <1>3, <1>8, <1>9, <1>10, <1>11 DEF DotParts
<1>. QED
  BY <1>1, <1>12

(* A node sends what it holds down one of its channels.                     *)
LEMMA DotForwardStep ==
  ASSUME DotParts, NEW n \in Dots!Node, Dots!Forward(n)
  PROVE  DotParts' /\ running' = running /\ program' = program /\ added' = added
<1>. DEFINE m == held[n]
<1>1. PICK c \in Dots!Out(n) : queue' = Dots!Put(queue, c, m)
  BY DEF Dots!Forward
<1>2. /\ ~Dots!OpenMP /\ m # 0
      /\ held' = Holding(held, n, 0)
      /\ nsent' = nsent /\ running' = running /\ added' = added
      /\ program' = program /\ eosFrom' = eosFrom /\ pool' = pool
  BY DEF Dots!Forward, Dots!EOS, Holding
<1>3. DotTypes /\ ChannelsEnd /\ NodesEnd /\ NetFacts /\ \A i \in 1 .. length : DotOnce(i)
  BY <1>2, NetworkFacts DEF DotParts, DotTypes
<1>4. Dots!net' = Dots!net /\ Dots!Node' = Dots!Node /\ ~Dots!OpenMP'
      /\ \A k : Dots!In(k)' = Dots!In(k)
  BY <1>2, NetStays
<1>5. /\ DotQueues(queue) /\ DOMAIN queue = Dots!net.channels /\ c \in DOMAIN queue /\ c[1] = n
      /\ DotNodes(held) /\ DOMAIN held = Dots!Node /\ n \in DOMAIN held
      /\ added \in [1 .. length -> Nat]
  BY <1>3 DEF DotTypes, Dots!Out
<1>6. m \in 1 .. length /\ m \in 0 .. length /\ 0 \in 0 .. length
  BY <1>2, <1>5, FarmAssumption DEF DotNodes
<1>7. n \in running /\ n # Dots!net.source /\ n # Dots!net.sink
  BY <1>2, <1>3 DEF NodesEnd
<1>8. /\ DotQueues(queue') /\ DOMAIN queue' = DOMAIN queue
      /\ queue'[c] = Append(queue[c], m)
      /\ \A d \in DOMAIN queue : d # c => queue'[d] = queue[d]
      /\ \A i \in 1 .. length :
           Queued(queue', i) = Queued(queue, i) + (IF m = i THEN 1 ELSE 0)
  BY <1>1, <1>5, <1>6, DotPut
<1>9. /\ DotNodes(held') /\ DOMAIN held' = DOMAIN held /\ held'[n] = 0
      /\ \A k \in DOMAIN held : k # n => held'[k] = held[k]
      /\ \A i \in 1 .. length : Held(held', i) + (IF m = i THEN 1 ELSE 0)
                                  = Held(held, i) + (IF 0 = i THEN 1 ELSE 0)
  BY <1>2, <1>5, <1>6, DotHold
<1>10. ASSUME NEW d \in Dots!net.channels
       PROVE  ChannelStep(d)
  <2>1. Finished(d[1])' = Finished(d[1])
    BY <1>2, <1>4 DEF Finished
  <2>2. CASE d = c
    <3>1. ~Finished(d[1])
      BY <1>5, <1>7, <2>2 DEF Finished
    <3>. QED
      BY <1>2, <1>6, <1>8, <2>2, <3>1 DEF ChannelStep
  <2>3. CASE d # c
    BY <1>2, <1>5, <1>8, <2>1, <2>3 DEF ChannelStep
  <2>. QED
    BY <2>2, <2>3
<1>11. DotTypes'
  BY <1>2, <1>3, <1>4, <1>8, <1>9 DEF DotTypes
<1>12. ChannelsEnd'
  BY <1>2, <1>3, <1>10, ChannelsEndStep
<1>13. NodesEnd'
  <2>1. /\ held'[Dots!net.source] = 0 /\ held'[Dots!net.sink] = 0
        /\ \A k \in Dots!Node : k \notin running => held'[k] = 0
    BY <1>3, <1>5, <1>7, <1>9 DEF NodesEnd, NetFacts
  <2>. QED
    BY <1>2, <1>3, <1>4, <2>1 DEF NodesEnd
<1>14. ASSUME NEW i \in 1 .. length
       PROVE  DotOnce(i)'
  <2>1. PICK s, p, q, q2, a, h, h2, e \in Nat :
          q = Queued(queue, i) /\ q2 = Queued(queue', i) /\ a = added[i]
          /\ h = Held(held, i) /\ h2 = Held(held', i)
          /\ s = (IF i > nsent THEN 1 ELSE 0) /\ p = (IF i \in pool THEN 1 ELSE 0)
          /\ e = (IF m = i THEN 1 ELSE 0)
    BY <1>5, <1>8, <1>9, QueuedType, HeldType
  <2>2. s + p + q + h + a = 1
    BY <1>3, <2>1 DEF DotOnce
  <2>3. q2 = q + e
    BY <1>8, <2>1
  <2>4. h2 + e = h
    <3>1. Held(held', i) + e = Held(held, i) + (IF 0 = i THEN 1 ELSE 0)
      BY <1>9, <2>1
    <3>2. (IF 0 = i THEN 1 ELSE 0) = 0
      BY FarmAssumption
    <3>. QED
      BY <2>1, <3>1, <3>2
  <2>5. s + p + q2 + h2 + a = 1
    BY <2>2, <2>3, <2>4, OneMoves
  <2>. QED
    BY <1>2, <2>1, <2>5 DEF DotOnce
<1>15. DotParts'
  BY <1>4, <1>11, <1>12, <1>13, <1>14 DEF DotParts
<1>. QED
  BY <1>2, <1>15

(* A node takes EOS; behind the last one it ends and sends EOS on.          *)
LEMMA DotReceiveEOSStep ==
  ASSUME DotParts, NEW c \in Dots!net.channels, Dots!ReceiveEOS(c)
  PROVE  DotParts' /\ running' \subseteq running /\ program' = program /\ added' = added
<1>. DEFINE n == c[2]
            q == Taken(queue, c)
<1>1. /\ ~Dots!OpenMP /\ queue[c] # <<>> /\ Head(queue[c]) = 0 /\ held[n] = 0 /\ n \in running
      /\ n = Dots!net.source => nsent > length
      /\ eosFrom' = eosFrom \cup {c}
      /\ \/ /\ Dots!In(n) \subseteq eosFrom' /\ running' = running \ {n}
            /\ queue' = IF n = Dots!net.source THEN q ELSE Dots!Broadcast(q, n)
         \/ queue' = q /\ running' = running
      /\ nsent' = nsent /\ held' = held /\ added' = added
      /\ program' = program /\ pool' = pool
  BY DEF Dots!ReceiveEOS, Dots!Receives, Dots!InputEnded, Dots!EOS, Taken
<1>2. DotTypes /\ ChannelsEnd /\ NodesEnd /\ NetFacts /\ \A i \in 1 .. length : DotOnce(i)
  BY <1>1, NetworkFacts DEF DotParts, DotTypes
<1>3. Dots!net' = Dots!net /\ Dots!Node' = Dots!Node /\ ~Dots!OpenMP'
      /\ \A k : Dots!In(k)' = Dots!In(k)
  BY <1>1, NetStays
<1>4. /\ DotQueues(queue) /\ DOMAIN queue = Dots!net.channels /\ c \in DOMAIN queue
      /\ c[1] # n /\ c \notin Dots!Out(n) /\ n \in Dots!Node
  BY <1>2 DEF DotTypes, NetFacts, Dots!Out
<1>5. /\ DotQueues(q) /\ DOMAIN q = DOMAIN queue
      /\ q[c] = Tail(queue[c])
      /\ \A d \in DOMAIN queue : d # c => q[d] = queue[d]
      /\ \A i \in 1 .. length : Queued(queue, i) = Queued(q, i) + (IF 0 = i THEN 1 ELSE 0)
  <2>1. DotQueues(queue) /\ c \in DOMAIN queue /\ queue[c] # <<>>
    BY <1>1, <1>4
  <2>. QED
    BY <1>1, <2>1, DotTake
<1>6. \A i \in 1 .. length : Queued(q, i) = Queued(queue, i)
  <2>. SUFFICES ASSUME NEW i \in 1 .. length PROVE Queued(q, i) = Queued(queue, i)
    OBVIOUS
  <2>1. Queued(queue, i) = Queued(q, i) + (IF 0 = i THEN 1 ELSE 0)
    BY <1>5
  <2>2. (IF 0 = i THEN 1 ELSE 0) = 0 /\ Queued(q, i) \in Nat
    BY <1>5, QueuedType, FarmAssumption
  <2>. HIDE DEF q
  <2>. QED
    BY <2>1, <2>2
<1>. HIDE DEF q
<1>7. \A k : Finished(k)' = IF k = n /\ n # Dots!net.source /\ running' = running \ {n}
                            THEN TRUE ELSE Finished(k)
  BY <1>1, <1>3 DEF Finished
<1>8. /\ DotQueues(queue') /\ DOMAIN queue' = DOMAIN queue
      /\ \A i \in 1 .. length : Queued(queue', i) = Queued(queue, i)
      /\ \A d \in Dots!net.channels : ChannelStep(d)
  <2>1. ASSUME NEW d \in Dots!net.channels, queue'[d] = q[d]
        PROVE  ChannelStep(d)
    <3>1. Finished(d[1]) => Finished(d[1])'
      BY <1>7
    <3>2. d = c => queue[d] # <<>> /\ queue'[d] = Tail(queue[d]) /\ Head(queue[d]) = 0
      BY <1>1, <1>5, <2>1
    <3>3. d # c => queue'[d] = queue[d] /\ (d \in eosFrom' => d \in eosFrom)
      BY <1>1, <1>4, <1>5, <2>1
    <3>. QED
      BY <3>1, <3>2, <3>3 DEF ChannelStep
  <2>2. CASE queue' = q
    BY <1>4, <1>5, <1>6, <2>1, <2>2
  <2>3. CASE n # Dots!net.source /\ running' = running \ {n} /\ queue' = Dots!Broadcast(q, n)
    <3>1. /\ DotQueues(queue') /\ DOMAIN queue' = DOMAIN queue
          /\ \A d \in DOMAIN queue :
               queue'[d] = IF d \in Dots!Out(n) THEN Append(q[d], 0) ELSE q[d]
          /\ \A i \in 1 .. length : Queued(queue', i) = Queued(q, i)
      BY <1>5, <2>3, DotBroadcast
    <3>2. ASSUME NEW d \in Dots!net.channels
          PROVE  ChannelStep(d)
      <4>1. CASE d \in Dots!Out(n)
        <5>1. d[1] = n /\ d # c
          BY <1>4, <4>1 DEF Dots!Out
        <5>2. ~Finished(d[1]) /\ Finished(d[1])'
          BY <1>1, <1>7, <2>3, <5>1 DEF Finished
        <5>3. queue'[d] = Append(queue[d], 0) /\ (d \in eosFrom' => d \in eosFrom)
          BY <1>1, <1>4, <1>5, <3>1, <4>1, <5>1
        <5>. QED
          BY <5>2, <5>3 DEF ChannelStep
      <4>2. CASE d \notin Dots!Out(n)
        BY <1>4, <2>1, <3>1, <4>2
      <4>. QED
        BY <4>1, <4>2
    <3>. QED
      BY <1>6, <3>1, <3>2
  <2>. QED
    BY <1>1, <2>2, <2>3
<1>9. DotTypes'
  BY <1>1, <1>2, <1>3, <1>8 DEF DotTypes
<1>10. ChannelsEnd'
  BY <1>1, <1>2, <1>8, ChannelsEndStep
<1>11. NodesEnd'
  <2>1. ASSUME NEW k \in Dots!Node, k \notin running'
        PROVE  held[k] = 0 /\ Dots!In(k) \subseteq eosFrom'
    <3>1. CASE k \notin running
      BY <1>1, <1>2, <3>1 DEF NodesEnd
    <3>2. CASE k \in running
      BY <1>1, <2>1, <3>2
    <3>. QED
      BY <3>1, <3>2
  <2>2. Dots!net.source \notin running' => nsent > length
    BY <1>1, <1>2 DEF NodesEnd
  <2>. QED
    BY <1>1, <1>2, <1>3, <2>1, <2>2 DEF NodesEnd
<1>12. ASSUME NEW i \in 1 .. length
       PROVE  DotOnce(i)'
  BY <1>1, <1>2, <1>8 DEF DotOnce
<1>13. DotParts'
  BY <1>3, <1>9, <1>10, <1>11, <1>12 DEF DotParts
<1>. QED
  BY <1>1, <1>13

(* The single construct creates a task.                                     *)
LEMMA DotCreateStep ==
  ASSUME DotParts, Dots!CreateTask
  PROVE  DotParts' /\ running' = running /\ program' = program /\ added' = added
<1>. DEFINE m == nsent + 1
<1>1. /\ Dots!OpenMP /\ nsent < length /\ nsent' = m /\ pool' = pool \cup {m}
      /\ program' = program /\ queue' = queue /\ held' = held /\ eosFrom' = eosFrom
      /\ running' = running /\ vectors' = vectors /\ added' = added
  BY DEF Dots!CreateTask
<1>2. DotTypes /\ TeamWorks /\ NetFacts /\ \A i \in 1 .. length : DotOnce(i)
  BY <1>1, NetworkFacts DEF DotParts, DotTypes
<1>3. Dots!net' = Dots!net /\ Dots!Node' = Dots!Node /\ Dots!OpenMP'
  BY <1>1, NetStays
<1>4. nsent \in Nat /\ m \in 1 .. length /\ m <= length /\ m \in 0 .. length + 1 /\ nsent # length
  BY <1>1, <1>2, FarmAssumption DEF DotTypes
<1>5. DotTypes'
  <2>1. pool' \subseteq 1 .. length
    BY <1>1, <1>2, <1>4 DEF DotTypes
  <2>. QED
    BY <1>1, <1>2, <1>3, <1>4, <2>1 DEF DotTypes
<1>6. TeamWorks'
  BY <1>1, <1>2, <1>3, <1>4 DEF TeamWorks
<1>7. ASSUME NEW i \in 1 .. length
      PROVE  DotOnce(i)'
  <2>1. PICK q, a, h \in Nat : q = Queued(queue, i) /\ a = added[i] /\ h = Held(held, i)
    BY <1>2, QueuedType, HeldType DEF DotTypes
  <2>2. (IF i > nsent THEN 1 ELSE 0) + (IF i \in pool THEN 1 ELSE 0) + q + h + a = 1
    BY <1>2, <2>1 DEF DotOnce
  <2>3. CASE i = m
    <3>1. /\ (IF i > nsent THEN 1 ELSE 0) = 1 /\ (IF i > m THEN 1 ELSE 0) = 0
          /\ (IF i \in pool' THEN 1 ELSE 0) = 1
      BY <1>1, <1>4, <2>3
    <3>2. q = 0 /\ h = 0 /\ a = 0
      BY <2>1, <2>2, <3>1
    <3>3. 0 + 1 + q + h + a = 1
      BY <3>2
    <3>. QED
      BY <1>1, <2>1, <3>1, <3>3 DEF DotOnce
  <2>4. CASE i # m
    <3>1. /\ (IF i > m THEN 1 ELSE 0) = (IF i > nsent THEN 1 ELSE 0)
          /\ (IF i \in pool' THEN 1 ELSE 0) = (IF i \in pool THEN 1 ELSE 0)
      BY <1>1, <1>4, <2>4
    <3>. QED
      BY <1>1, <2>1, <2>2, <3>1 DEF DotOnce
  <2>. QED
    BY <2>3, <2>4
<1>8. DotParts'
  BY <1>3, <1>5, <1>6, <1>7 DEF DotParts
<1>. QED
  BY <1>1, <1>8

(* A thread of the team takes a task.                                       *)
LEMMA DotBeginTaskStep ==
  ASSUME DotParts, NEW n \in Dots!Workers \cap Dots!Node, Dots!BeginTask(n)
  PROVE  DotParts' /\ running' = running /\ program' = program /\ added' = added
<1>1. PICK m \in pool :
        /\ pool' = pool \ {m} /\ held' = Holding(held, n, m)
        /\ vectors' = [vectors EXCEPT ![n] = @ \cup {m}]
  BY DEF Dots!BeginTask, Dots!Pair, Holding
<1>2. /\ Dots!OpenMP /\ n \in running /\ held[n] = 0
      /\ program' = program /\ nsent' = nsent /\ queue' = queue /\ eosFrom' = eosFrom
      /\ running' = running /\ added' = added
  BY DEF Dots!BeginTask, Dots!EOS
<1>3. DotTypes /\ TeamWorks /\ NetFacts /\ \A i \in 1 .. length : DotOnce(i)
  BY <1>2, NetworkFacts DEF DotParts, DotTypes
<1>4. Dots!net' = Dots!net /\ Dots!Node' = Dots!Node /\ Dots!OpenMP'
  BY <1>2, NetStays
<1>5. m \in 1 .. length /\ m \in 0 .. length /\ m # 0
  BY <1>3, FarmAssumption DEF DotTypes
<1>6. /\ DotNodes(held') /\ DOMAIN held' = DOMAIN held /\ held'[n] = m
      /\ \A k \in DOMAIN held : k # n => held'[k] = held[k]
      /\ \A i \in 1 .. length : Held(held', i) + (IF held[n] = i THEN 1 ELSE 0)
                                  = Held(held, i) + (IF m = i THEN 1 ELSE 0)
  <2>1. DotNodes(held) /\ n \in DOMAIN held
    BY <1>3 DEF DotTypes
  <2>. QED
    BY <1>1, <1>5, <2>1, DotHold
<1>7. n # Dots!net.source /\ running = Dots!Node /\ DOMAIN held = Dots!Node
  BY <1>2, <1>3, Team DEF TeamWorks, NetFacts, DotTypes
<1>8. DotTypes'
  BY <1>1, <1>2, <1>3, <1>4, <1>6 DEF DotTypes
<1>9. TeamWorks'
  <2>1. held'[Dots!net.source] = 0
    BY <1>3, <1>6, <1>7 DEF TeamWorks, NetFacts
  <2>2. ASSUME NEW k \in Dots!Workers
        PROVE  vectors'[k] = IF held'[k] = 0 THEN {} ELSE {held'[k]}
    <3>1. vectors[k] = (IF held[k] = 0 THEN {} ELSE {held[k]}) /\ DOMAIN vectors = Dots!Workers
      BY <1>3 DEF TeamWorks
    <3>2. CASE k = n
      <4>1. vectors'[k] = {} \cup {m}
        BY <1>1, <1>2, <3>1, <3>2
      <4>. QED
        BY <1>5, <1>6, <3>2, <4>1
    <3>3. CASE k # n
      <4>1. vectors'[k] = vectors[k]
        BY <1>1, <3>1, <3>3
      <4>2. k \in DOMAIN held
        BY <1>2, <1>3, <1>7 DEF NetFacts
      <4>3. held'[k] = held[k]
        BY <1>6, <3>3, <4>2
      <4>. QED
        BY <3>1, <4>1, <4>3
    <3>. QED
      BY <3>2, <3>3
  <2>3. DOMAIN vectors' = Dots!Workers
    BY <1>1, <1>3 DEF TeamWorks
  <2>. QED
    BY <1>2, <1>3, <1>4, <1>7, <2>1, <2>2, <2>3 DEF TeamWorks
<1>10. ASSUME NEW i \in 1 .. length
       PROVE  DotOnce(i)'
  <2>1. PICK s, p, p2, q, a, h, h2, e \in Nat :
          q = Queued(queue, i) /\ a = added[i]
          /\ h = Held(held, i) /\ h2 = Held(held', i)
          /\ s = (IF i > nsent THEN 1 ELSE 0) /\ p = (IF i \in pool THEN 1 ELSE 0)
          /\ p2 = (IF i \in pool' THEN 1 ELSE 0)
          /\ e = (IF m = i THEN 1 ELSE 0)
    BY <1>3, <1>6, QueuedType, HeldType DEF DotTypes
  <2>2. s + p + q + h + a = 1
    BY <1>3, <2>1 DEF DotOnce
  <2>3. p = p2 + e
    BY <1>1, <2>1
  <2>4. h2 = h + e
    <3>1. Held(held', i) + (IF held[n] = i THEN 1 ELSE 0) = h + e
      BY <1>6, <2>1
    <3>2. (IF held[n] = i THEN 1 ELSE 0) = 0
      BY <1>2, FarmAssumption
    <3>. QED
      BY <2>1, <3>1, <3>2
  <2>5. s + p2 + q + h2 + a = 1
    BY <2>2, <2>3, <2>4
  <2>. QED
    BY <1>2, <2>1, <2>5 DEF DotOnce
<1>11. DotParts'
  BY <1>4, <1>8, <1>9, <1>10 DEF DotParts
<1>. QED
  BY <1>2, <1>11

(* A thread adds the product of what is in its vectors: of its task's item. *)
LEMMA DotEndTaskStep ==
  ASSUME DotParts, NEW n \in Dots!Workers \cap Dots!Node, Dots!EndTask(n)
  PROVE  /\ DotParts' /\ running' = running /\ program' = program /\ ~Dots!Over
         /\ \E i \in 1 .. length : added[i] = 0 /\ added' = [added EXCEPT ![i] = 1]
<1>. DEFINE m == held[n]
<1>1. /\ Dots!OpenMP /\ n \in running /\ m # 0
      /\ added' = IF vectors[n] = {m} THEN [added EXCEPT ![m] = @ + 1] ELSE added
      /\ vectors' = [vectors EXCEPT ![n] = {}] /\ held' = Holding(held, n, 0)
      /\ program' = program /\ nsent' = nsent /\ queue' = queue /\ eosFrom' = eosFrom
      /\ running' = running /\ pool' = pool
  BY DEF Dots!EndTask, Dots!Pair, Dots!EOS, Dots!Added, Holding
<1>2. DotTypes /\ TeamWorks /\ NetFacts /\ \A i \in 1 .. length : DotOnce(i)
  BY <1>1, NetworkFacts DEF DotParts, DotTypes
<1>3. Dots!net' = Dots!net /\ Dots!Node' = Dots!Node /\ Dots!OpenMP'
  BY <1>1, NetStays
<1>4. /\ DotNodes(held) /\ n \in DOMAIN held /\ DOMAIN held = Dots!Node
      /\ added \in [1 .. length -> Nat] /\ DotQueues(queue)
  BY <1>2 DEF DotTypes
<1>5. m \in 1 .. length /\ m \in 0 .. length /\ 0 \in 0 .. length
  BY <1>1, <1>4, FarmAssumption DEF DotNodes
<1>6. added' = [added EXCEPT ![m] = @ + 1]
  <2>1. vectors[n] = {m}
    BY <1>1, <1>2 DEF TeamWorks
  <2>. QED
    BY <1>1, <2>1
<1>7. /\ \A i \in 1 .. length : added'[i] = added[i] + (IF m = i THEN 1 ELSE 0)
      /\ added' \in [1 .. length -> Nat]
  BY <1>4, <1>5, <1>6
<1>8. /\ DotNodes(held') /\ DOMAIN held' = DOMAIN held /\ held'[n] = 0
      /\ \A k \in DOMAIN held : k # n => held'[k] = held[k]
      /\ \A i \in 1 .. length : Held(held', i) + (IF m = i THEN 1 ELSE 0)
                                  = Held(held, i) + (IF 0 = i THEN 1 ELSE 0)
  BY <1>1, <1>4, <1>5, DotHold
<1>9. n # Dots!net.source /\ running = Dots!Node
  BY <1>1, <1>2, Team DEF TeamWorks, NetFacts
<1>10. DotTypes'
  BY <1>1, <1>2, <1>3, <1>7, <1>8 DEF DotTypes
<1>11. TeamWorks'
  <2>1. held'[Dots!net.source] = 0
    BY <1>2, <1>4, <1>8, <1>9 DEF TeamWorks, NetFacts
  <2>2. ASSUME NEW k \in Dots!Workers
        PROVE  vectors'[k] = IF held'[k] = 0 THEN {} ELSE {held'[k]}
    <3>1. vectors[k] = (IF held[k] = 0 THEN {} ELSE {held[k]}) /\ DOMAIN vectors = Dots!Workers
      BY <1>2 DEF TeamWorks
    <3>2. CASE k = n
      BY <1>1, <1>8, <3>1, <3>2
    <3>3. CASE k # n
      <4>1. vectors'[k] = vectors[k]
        BY <1>1, <3>1, <3>3
      <4>2. k \in DOMAIN held
        BY <1>1, <1>2, <1>4 DEF NetFacts
      <4>3. held'[k] = held[k]
        BY <1>8, <3>3, <4>2
      <4>. QED
        BY <3>1, <4>1, <4>3
    <3>. QED
      BY <3>2, <3>3
  <2>3. DOMAIN vectors' = Dots!Workers
    BY <1>1, <1>2 DEF TeamWorks
  <2>. QED
    BY <1>1, <1>2, <1>3, <1>9, <2>1, <2>2, <2>3 DEF TeamWorks
<1>12. ASSUME NEW i \in 1 .. length
       PROVE  /\ DotOnce(i)'
              /\ i = m => added[i] = 0
  <2>1. PICK s, p, q, a, a2, h, h2, e \in Nat :
          q = Queued(queue, i) /\ a = added[i] /\ a2 = added'[i]
          /\ h = Held(held, i) /\ h2 = Held(held', i)
          /\ s = (IF i > nsent THEN 1 ELSE 0) /\ p = (IF i \in pool THEN 1 ELSE 0)
          /\ e = (IF m = i THEN 1 ELSE 0)
    <3>1. /\ Queued(queue, i) \in Nat /\ Held(held, i) \in Nat /\ Held(held', i) \in Nat
          /\ added[i] \in Nat /\ added'[i] \in Nat
      BY <1>4, <1>7, <1>8, QueuedType, HeldType
    <3>2. /\ (IF i > nsent THEN 1 ELSE 0) \in Nat /\ (IF i \in pool THEN 1 ELSE 0) \in Nat
          /\ (IF m = i THEN 1 ELSE 0) \in Nat
      OBVIOUS
    <3>. QED
      BY <3>1, <3>2
  <2>2. s + p + q + h + a = 1
    BY <1>2, <2>1 DEF DotOnce
  <2>3. a2 = a + e
    BY <1>7, <2>1
  <2>4. h2 + e = h
    <3>1. Held(held', i) + e = Held(held, i) + (IF 0 = i THEN 1 ELSE 0)
      BY <1>8, <2>1
    <3>2. (IF 0 = i THEN 1 ELSE 0) = 0
      BY FarmAssumption
    <3>. QED
      BY <2>1, <3>1, <3>2
  <2>5. s + p + q + h2 + a2 = 1 /\ (e = 1 => a = 0)
    BY <2>2, <2>3, <2>4
  <2>6. i = m => e = 1
    BY <2>1
  <2>. QED
    BY <1>1, <2>1, <2>5, <2>6 DEF DotOnce
<1>13. DotParts'
  BY <1>3, <1>10, <1>11, <1>12 DEF DotParts
<1>14. added[m] = 0 /\ added' = [added EXCEPT ![m] = 1]
  <2>1. added[m] = 0
    BY <1>5, <1>12
  <2>2. [added EXCEPT ![m] = @ + 1] = [added EXCEPT ![m] = 0 + 1] /\ 0 + 1 = 1
    BY <2>1
  <2>. QED
    BY <1>6, <2>1, <2>2
<1>15. ~Dots!Over
  BY <1>2, <1>9 DEF NetFacts, Dots!Over
<1>. QED
  BY <1>1, <1>5, <1>13, <1>14, <1>15

(* The barrier at the end of the region.                                    *)
LEMMA DotRegionEndsStep ==
  ASSUME DotParts, Dots!RegionEnds
  PROVE  DotParts' /\ running' \subseteq running /\ program' = program /\ added' = added
<1>1. /\ Dots!OpenMP /\ nsent = length /\ pool = {} /\ \A n \in Dots!Workers : held[n] = 0
      /\ running' = {} /\ program' = program /\ nsent' = nsent /\ queue' = queue
      /\ held' = held /\ eosFrom' = eosFrom /\ pool' = pool /\ vectors' = vectors
      /\ added' = added
  BY DEF Dots!RegionEnds, Dots!EOS
<1>2. DotTypes /\ TeamWorks /\ \A i \in 1 .. length : DotOnce(i)
  BY <1>1 DEF DotParts
<1>3. Dots!net' = Dots!net /\ Dots!Node' = Dots!Node /\ Dots!OpenMP'
  BY <1>1, NetStays
<1>4. DotTypes'
  BY <1>1, <1>2, <1>3 DEF DotTypes
<1>5. TeamWorks'
  BY <1>1, <1>2, <1>3 DEF TeamWorks
<1>6. \A i \in 1 .. length : DotOnce(i)'
  BY <1>1, <1>2 DEF DotOnce
<1>. QED
  BY <1>1, <1>3, <1>4, <1>5, <1>6 DEF DotParts

(* The networks start in the invariant.                                     *)
LEMMA DotStart ==
  ASSUME Dots!Init
  PROVE  DotParts
<1>1. /\ program \in Dots!Programs /\ nsent = 0 /\ queue = [c \in Dots!net.channels |-> <<>>]
      /\ held = [n \in Dots!Node |-> 0] /\ eosFrom = {} /\ running = Dots!Node /\ pool = {}
      /\ vectors = [w \in Dots!Workers |-> {}] /\ added = [i \in 1 .. length |-> 0]
  BY DEF Dots!Init, Dots!EOS, Dots!Item
<1>2. NetFacts
  BY <1>1, NetworkFacts
<1>3. <<>> \in Seq(0 .. length) /\ 0 \in 0 .. length /\ 0 \in 0 .. length + 1 /\ ~(0 > length)
  BY FarmAssumption
<1>4. DotTypes
  BY <1>1, <1>2, <1>3 DEF DotTypes, DotQueues, DotNodes, NetFacts
<1>5. ASSUME Dots!OpenMP
      PROVE  TeamWorks
  BY <1>1, <1>2, <1>3, <1>5, FarmAssumption DEF TeamWorks, NetFacts
<1>6. ASSUME ~Dots!OpenMP
      PROVE  ChannelsEnd /\ NodesEnd
  <2>1. ChannelsEnd
    <3>. SUFFICES ASSUME NEW c \in Dots!net.channels
                  PROVE  Delivers(queue[c], StateOf(c[1]), c \in eosFrom)
      BY DEF ChannelsEnd
    <3>1. PICK q \in Seq(0 .. length) : q = queue[c] /\ q = <<>>
      BY <1>1, <1>3
    <3>2. \A k \in DOMAIN q : FALSE
      BY <3>1
    <3>. QED
      BY <1>1, <3>1, <3>2 DEF Delivers
  <2>2. NodesEnd
    BY <1>1, <1>2 DEF NodesEnd, NetFacts
  <2>. QED
    BY <2>1, <2>2
<1>7. ASSUME NEW i \in 1 .. length
      PROVE  DotOnce(i)
  <2>1. Queued(queue, i) = 0
    <3>1. PICK f : f = QueuedOf(queue, i)
      OBVIOUS
    <3>2. Occurs(<<>>, i) = 0
      BY AmongEmpty DEF Occurs
    <3>3. \A c \in DOMAIN queue : f[c] = 0
      BY <1>1, <3>1, <3>2 DEF QueuedOf
    <3>. QED
      BY <1>4, <3>1, <3>3, SumZero DEF Queued, DotTypes, DotQueues
  <2>2. Held(held, i) = 0
    <3>1. PICK f : f = HeldOf(held, i)
      OBVIOUS
    <3>2. \A n \in DOMAIN held : f[n] = 0
      BY <1>1, <3>1, FarmAssumption DEF HeldOf
    <3>. QED
      BY <1>4, <3>1, <3>2, SumZero DEF Held, DotTypes, DotNodes
  <2>3. /\ (IF i > nsent THEN 1 ELSE 0) = 1 /\ (IF i \in pool THEN 1 ELSE 0) = 0
        /\ added[i] = 0
    BY <1>1, FarmAssumption
  <2>. QED
    BY <2>1, <2>2, <2>3 DEF DotOnce
<1>. QED
  BY <1>4, <1>5, <1>6, <1>7 DEF DotParts

(* A program that stops keeps the invariant of the networks.                *)
LEMMA DotRests ==
  ASSUME DotParts, UNCHANGED dotsVars
  PROVE  DotParts' /\ running' = running /\ program' = program /\ added' = added
<1>1. /\ program' = program /\ nsent' = nsent /\ queue' = queue /\ held' = held
      /\ eosFrom' = eosFrom /\ running' = running /\ pool' = pool /\ vectors' = vectors
      /\ added' = added
  BY DEF dotsVars
<1>2. /\ Dots!net' = Dots!net /\ Dots!Node' = Dots!Node /\ Dots!OpenMP' = Dots!OpenMP
      /\ \A n : Dots!In(n)' = Dots!In(n)
  BY <1>1, NetStays
<1>3. DotTypes'
  BY <1>1, <1>2 DEF DotParts, DotTypes
<1>4. Dots!OpenMP => TeamWorks'
  BY <1>1, <1>2 DEF DotParts, TeamWorks
<1>5. ~Dots!OpenMP => ChannelsEnd' /\ NodesEnd'
  <2>1. \A n : StateOf(n)' = StateOf(n)
    BY <1>1, <1>2 DEF StateOf, Finished
  <2>. QED
    BY <1>1, <1>2, <2>1 DEF DotParts, ChannelsEnd, NodesEnd
<1>6. \A i \in 1 .. length : DotOnce(i)'
  BY <1>1 DEF DotParts, DotOnce
<1>. QED
  BY <1>1, <1>2, <1>3, <1>4, <1>5, <1>6 DEF DotParts

(* Every step keeps the invariant, adds up at most one item, not added up   *)
(* before, and ends the sink only behind the last one.                      *)
LEMMA DotStep ==
  ASSUME DotParts, Dots!Next \/ UNCHANGED dotsVars
  PROVE  /\ DotParts'
         /\ \/ added' = added /\ Dots!Over' = Dots!Over
            \/ /\ ~Dots!Over /\ ~Dots!Over'
               /\ \E i \in 1 .. length : added[i] = 0 /\ added' = [added EXCEPT ![i] = 1]
            \/ /\ added' = added /\ Dots!Over'
               /\ \A i \in 1 .. length : added[i] = 1
<1>. DEFINE Stepped ==
      \/ DotParts' /\ running' \subseteq running /\ program' = program /\ added' = added
      \/ /\ DotParts' /\ running' = running /\ program' = program /\ ~Dots!Over
         /\ \E i \in 1 .. length : added[i] = 0 /\ added' = [added EXCEPT ![i] = 1]
<1>1. Stepped
  <2>1. CASE Dots!SourceStep
    BY <2>1, DotSendStep, DotSendEOSStep DEF Dots!SourceStep
  <2>2. CASE Dots!Region
    BY <2>2, DotCreateStep, DotRegionEndsStep DEF Dots!Region
  <2>3. ASSUME NEW n \in Dots!Node, Dots!NodeStep(n)
        PROVE  Stepped
    <3>1. CASE Dots!Forward(n)
      BY <3>1, DotForwardStep
    <3>2. ASSUME NEW c \in Dots!In(n), Dots!Sum(c) \/ Dots!Begin(c) \/ Dots!ReceiveEOS(c)
          PROVE  Stepped
      <4>1. c \in Dots!net.channels
        BY DEF Dots!In
      <4>2. CASE Dots!Sum(c)
        BY <4>1, <4>2, DotSumStep
      <4>3. CASE Dots!Begin(c)
        BY <4>1, <4>3, DotBeginStep
      <4>4. CASE Dots!ReceiveEOS(c)
        BY <4>1, <4>4, DotReceiveEOSStep
      <4>. QED
        BY <3>2, <4>2, <4>3, <4>4
    <3>. QED
      BY <2>3, <3>1, <3>2 DEF Dots!NodeStep
  <2>4. ASSUME NEW n \in Dots!Workers \cap Dots!Node, Dots!ThreadStep(n)
        PROVE  Stepped
    <3>1. CASE Dots!BeginTask(n)
      BY <3>1, DotBeginTaskStep
    <3>2. CASE Dots!EndTask(n)
      BY <3>2, DotEndTaskStep
    <3>. QED
      BY <2>4, <3>1, <3>2 DEF Dots!ThreadStep
  <2>5. CASE Dots!Ended \/ UNCHANGED dotsVars
    <3>1. UNCHANGED dotsVars
      BY <2>5 DEF Dots!Ended, Dots!vars, dotsVars
    <3>. QED
      BY <3>1, DotRests
  <2>. QED
    BY <2>1, <2>2, <2>3, <2>4, <2>5 DEF Dots!Next
<1>2. Dots!net' = Dots!net
  BY <1>1, NetStays
<1>3. CASE running' = running
  BY <1>1, <1>2, <1>3 DEF Dots!Over
<1>4. CASE running' \subseteq running /\ added' = added /\ DotParts'
  <2>1. Dots!Over => Dots!Over'
    BY <1>2, <1>4 DEF Dots!Over
  <2>2. Dots!Over' => \A i \in 1 .. length : added[i] = 1
    BY <1>4, AllAddedNext
  <2>3. CASE Dots!Over'
    BY <1>4, <2>2, <2>3
  <2>4. CASE ~Dots!Over'
    <3>1. ~Dots!Over
      BY <2>1, <2>4
    <3>2. Dots!Over' = Dots!Over
      BY <2>4, <3>1 DEF Dots!Over
    <3>. QED
      BY <1>4, <3>2
  <2>. QED
    BY <2>3, <2>4
<1>. QED
  BY <1>1, <1>3, <1>4

(* What the invariant says: EOS is behind the last item, and when the sink  *)
(* has ended nothing is on its way.                                         *)
LEMMA DotFacts ==
  ASSUME DotParts
  PROVE  Dots!NothingBehindEOS
<1>1. DotTypes
  BY DEF DotParts
<1>2. ASSUME NEW c \in DOMAIN queue, NEW k \in DOMAIN queue[c], queue[c][k] = 0
      PROVE  k = Len(queue[c])
  <2>1. c \in Dots!net.channels
    BY <1>1 DEF DotTypes
  <2>2. CASE Dots!OpenMP
    <3>1. queue[c] = <<>>
      BY <2>1, <2>2, RegionOver
    <3>. QED
      BY <3>1
  <2>3. CASE ~Dots!OpenMP
    <3>1. Delivers(queue[c], StateOf(c[1]), c \in eosFrom)
      BY <2>1, <2>3 DEF DotParts, ChannelsEnd
    <3>. QED
      BY <1>2, <3>1 DEF Delivers
  <2>. QED
    BY <2>2, <2>3
<1>3. ASSUME Dots!Over
      PROVE  Dots!InFlight \subseteq {0}
  <2>1. /\ \A c \in Dots!net.channels : queue[c] = <<>>
        /\ \A n \in Dots!Node : held[n] = 0
    BY <1>3, NothingLeft
  <2>2. \A c \in DOMAIN queue : Dots!ToSet(queue[c]) = {}
    BY <1>1, <2>1 DEF DotTypes, Dots!ToSet
  <2>3. \A n \in DOMAIN held : held[n] = 0
    BY <1>1, <2>1 DEF DotTypes
  <2>. QED
    BY <2>2, <2>3 DEF Dots!InFlight
<1>. QED
  BY <1>2, <1>3 DEF Dots!NothingBehindEOS, Dots!EOS

-----------------------------------------------------------------------------
(* A pipeline of three: from the items added up to those not sent.  q and r *)
(* are the channels to and from the middle node, which holds h and may be   *)
(* on; k items are added up, l have left the middle node, n are sent.       *)
InLine(k, l, q, r, h, n, on) ==
  /\ \A j \in 1 .. Len(r) : r[j] # 0 => r[j] = k + j
  /\ \A j \in 1 .. Len(q) : q[j] # 0 => q[j] = l + (IF h = 0 THEN 0 ELSE 1) + j
  /\ h # 0 => h = l + 1
  /\ on => k + Len(r) = l
  /\ n <= length => l + (IF h = 0 THEN 0 ELSE 1) + Len(q) = n

Mid == Dots!W(1)
Into == <<Dots!Source, Mid>>
From == <<Mid, Dots!Sink>>
InPipe(k, l) ==
  /\ InLine(k, l, queue[Into], queue[From], held[Mid], nsent, Mid \in running)
  /\ \A i \in 1 .. length : added[i] > 0 <=> i <= k
Piped == program \in {"pipe", "pipe_square"}

OrderInv ==
  /\ Piped => \E k, l \in Nat : InPipe(k, l)
  /\ program = "farm3_ordered" =>
       \A i, j \in 1 .. length : i < j /\ added[j] > 0 => added[i] > 0

(* What the steps make of such a line.                                      *)
LineSteps(k, l, q, r, h, n, on) ==
  /\ n < length => InLine(k, l, Append(q, n + 1), r, h, n + 1, on)
  /\ InLine(k, l, Append(q, 0), r, h, length + 1, on)
  /\ r # <<>> /\ Head(r) # 0 => Head(r) = k + 1 /\ InLine(k + 1, l, q, Tail(r), h, n, on)
  /\ q # <<>> /\ Head(q) # 0 /\ h = 0 => InLine(k, l, Tail(q), r, Head(q), n, on)
  /\ h # 0 /\ on => InLine(k, l + 1, q, Append(r, h), 0, n, on)
  /\ q # <<>> /\ Len(q) = 1 /\ n > length => InLine(k, l, <<>>, Append(r, 0), h, n, FALSE)
  /\ ~on => InLine(k, l, q, <<>>, h, n, on)
  /\ \A x \in BOOLEAN : (x => on) => InLine(k, l, q, r, h, n, x)

(* A line stays a line.                                                     *)
LEMMA LineMoves ==
  ASSUME NEW k \in Nat, NEW l \in Nat, NEW q \in Seq(0 .. length), NEW r \in Seq(0 .. length),
         NEW h \in 0 .. length, NEW n \in 0 .. length + 1, NEW on \in BOOLEAN,
         InLine(k, l, q, r, h, n, on)
  PROVE  LineSteps(k, l, q, r, h, n, on)
<1>. DEFINE s == IF h = 0 THEN 0 ELSE 1
<1>0. /\ length \in Nat /\ Len(q) \in Nat /\ Len(r) \in Nat /\ s \in 0 .. 1
  BY FarmAssumption
<1>1. /\ \A j \in 1 .. Len(r) : r[j] # 0 => r[j] = k + j
      /\ \A j \in 1 .. Len(q) : q[j] # 0 => q[j] = l + s + j
      /\ h # 0 => h = l + 1
      /\ on => k + Len(r) = l
      /\ n <= length => l + s + Len(q) = n
  BY DEF InLine
<1>2. \A m \in 0 .. length : /\ Len(Append(q, m)) = Len(q) + 1 /\ Append(q, m)[Len(q) + 1] = m
                             /\ \A j \in 1 .. Len(q) : Append(q, m)[j] = q[j]
                             /\ Len(Append(r, m)) = Len(r) + 1 /\ Append(r, m)[Len(r) + 1] = m
                             /\ \A j \in 1 .. Len(r) : Append(r, m)[j] = r[j]
  OBVIOUS
<1>3. r # <<>> => /\ Head(r) = r[1] /\ 1 \in 1 .. Len(r) /\ Len(Tail(r)) = Len(r) - 1
                  /\ \A j \in 1 .. Len(r) - 1 : Tail(r)[j] = r[j + 1] /\ j + 1 \in 1 .. Len(r)
  OBVIOUS
<1>4. q # <<>> => /\ Head(q) = q[1] /\ 1 \in 1 .. Len(q) /\ Len(Tail(q)) = Len(q) - 1
                  /\ \A j \in 1 .. Len(q) - 1 : Tail(q)[j] = q[j + 1] /\ j + 1 \in 1 .. Len(q)
  OBVIOUS
<1>. HIDE DEF s
<1>5. \A m \in Nat : \A j \in 1 .. m + 1 : j \in 1 .. m \/ j = m + 1
  OBVIOUS
<1>6. ASSUME n < length PROVE InLine(k, l, Append(q, n + 1), r, h, n + 1, on)
  <2>1. n + 1 \in 0 .. length /\ n <= length /\ n \in Nat
    BY <1>0, <1>6
  <2>0. l + s + Len(q) = n
    BY <1>1, <2>1
  <2>4. l + s + (Len(q) + 1) = n + 1
    BY <1>0, <2>0, <2>1
  <2>2. ASSUME NEW j \in 1 .. Len(q) + 1, Append(q, n + 1)[j] # 0
        PROVE  Append(q, n + 1)[j] = l + s + j
    <3>1. CASE j \in 1 .. Len(q)
      BY <1>1, <1>2, <2>1, <2>2, <3>1
    <3>2. CASE j = Len(q) + 1
      BY <1>2, <2>1, <2>4, <3>2
    <3>. QED BY <1>0, <1>5, <3>1, <3>2
  <2>3. Len(Append(q, n + 1)) = Len(q) + 1
    BY <1>2, <2>1
  <2>. QED BY <1>1, <2>2, <2>3, <2>4 DEF InLine, s
<1>7. InLine(k, l, Append(q, 0), r, h, length + 1, on)
  <2>1. 0 \in 0 .. length /\ ~(length + 1 <= length)
    BY <1>0
  <2>2. ASSUME NEW j \in 1 .. Len(q) + 1, Append(q, 0)[j] # 0
        PROVE  Append(q, 0)[j] = l + s + j
    BY <1>0, <1>1, <1>2, <1>5, <2>1, <2>2
  <2>3. Len(Append(q, 0)) = Len(q) + 1
    BY <1>2, <2>1
  <2>. QED BY <1>1, <2>1, <2>2, <2>3 DEF InLine, s
<1>8. ASSUME r # <<>>, Head(r) # 0
      PROVE  Head(r) = k + 1 /\ InLine(k + 1, l, q, Tail(r), h, n, on)
  <2>1. Head(r) = k + 1
    BY <1>1, <1>3, <1>8
  <2>2. ASSUME NEW j \in 1 .. Len(r) - 1, Tail(r)[j] # 0
        PROVE  Tail(r)[j] = (k + 1) + j
    BY <1>1, <1>3, <1>8, <2>2
  <2>4. on => (k + 1) + (Len(r) - 1) = l
    <3>1. \A x, y \in Nat : (x + 1) + (y - 1) = x + y
      OBVIOUS
    <3>2. (k + 1) + (Len(r) - 1) = k + Len(r)
      BY <1>0, <3>1
    <3>3. on => k + Len(r) = l
      BY <1>1
    <3>. QED BY <3>2, <3>3, Zenon
  <2>3. Len(Tail(r)) = Len(r) - 1 /\ (on => (k + 1) + (Len(r) - 1) = l)
    BY <1>3, <1>8, <2>4
  <2>. QED BY <1>1, <2>1, <2>2, <2>3 DEF InLine, s
<1>9. ASSUME q # <<>>, Head(q) # 0, h = 0
      PROVE  InLine(k, l, Tail(q), r, Head(q), n, on)
  <2>0. s = 0
    BY <1>9 DEF s
  <2>1. Head(q) = l + 1 /\ s = 0
    BY <1>1, <1>4, <1>9, <2>0
  <2>2. ASSUME NEW j \in 1 .. Len(q) - 1, Tail(q)[j] # 0
        PROVE  Tail(q)[j] = l + 1 + j
    BY <1>1, <1>4, <1>9, <2>1, <2>2
  <2>4. n <= length => l + 1 + (Len(q) - 1) = n
    <3>1. n <= length => l + 0 + Len(q) = n
      BY <1>1, <2>0
    <3>2. \A x, y \in Nat : x + 1 + (y - 1) = x + 0 + y
      OBVIOUS
    <3>3. l + 1 + (Len(q) - 1) = l + 0 + Len(q)
      BY <1>0, <3>2
    <3>. QED BY <3>1, <3>3, Zenon
  <2>3. Len(Tail(q)) = Len(q) - 1 /\ (n <= length => l + 1 + (Len(q) - 1) = n)
    BY <1>4, <1>9, <2>4
  <2>. QED BY <1>1, <1>9, <2>1, <2>2, <2>3 DEF InLine, s
<1>10. ASSUME h # 0, on PROVE InLine(k, l + 1, q, Append(r, h), 0, n, on)
  <2>1. h = l + 1 /\ s = 1 /\ k + Len(r) = l
    BY <1>1, <1>10 DEF s
  <2>0. k + (Len(r) + 1) = l + 1
    BY <1>0, <2>1
  <2>2. ASSUME NEW j \in 1 .. Len(r) + 1, Append(r, h)[j] # 0
        PROVE  Append(r, h)[j] = k + j
    <3>1. CASE j \in 1 .. Len(r)
      BY <1>1, <1>2, <2>2, <3>1
    <3>2. CASE j = Len(r) + 1
      BY <1>2, <2>0, <2>1, <3>2
    <3>. QED BY <1>0, <1>5, <3>1, <3>2
  <2>3. Len(Append(r, h)) = Len(r) + 1 /\ k + (Len(r) + 1) = l + 1
    BY <1>2, <2>0
  <2>4. \A j \in 1 .. Len(q) : q[j] # 0 => q[j] = (l + 1) + 0 + j
    BY <1>1, <2>1
  <2>5. n <= length => (l + 1) + 0 + Len(q) = n
    BY <1>0, <1>1, <2>1
  <2>. QED BY <2>2, <2>3, <2>4, <2>5 DEF InLine, s
<1>11. ASSUME q # <<>>, Len(q) = 1, n > length
       PROVE  InLine(k, l, <<>>, Append(r, 0), h, n, FALSE)
  <2>1. 0 \in 0 .. length /\ ~(n <= length) /\ Len(<<>>) = 0
    BY <1>0, <1>11
  <2>2. ASSUME NEW j \in 1 .. Len(r) + 1, Append(r, 0)[j] # 0
        PROVE  Append(r, 0)[j] = k + j
    BY <1>0, <1>1, <1>2, <1>5, <2>1, <2>2
  <2>3. Len(Append(r, 0)) = Len(r) + 1
    BY <1>2, <2>1
  <2>4. \A j \in 1 .. Len(<<>>) : FALSE
    BY <2>1
  <2>. QED BY <1>1, <2>1, <2>2, <2>3, <2>4 DEF InLine, s
<1>12. ASSUME ~on PROVE InLine(k, l, q, <<>>, h, n, on)
  <2>1. \A j \in 1 .. Len(<<>>) : FALSE
    OBVIOUS
  <2>. QED BY <1>1, <1>12, <2>1 DEF InLine, s
<1>13. ASSUME NEW x \in BOOLEAN, x => on PROVE InLine(k, l, q, r, h, n, x)
  BY <1>1, <1>13 DEF InLine, s
<1>. QED
  BY <1>6, <1>7, <1>8, <1>9, <1>10, <1>11, <1>12, <1>13 DEF LineSteps

(* The network of a pipeline.                                               *)
LEMMA PipeFacts ==
  ASSUME DotParts, Piped
  PROVE  /\ DotTypes /\ ChannelsEnd /\ NodesEnd /\ ~Dots!OpenMP
         /\ Dots!net.channels = {Into, From} /\ Into # From
         /\ Dots!net.source = Dots!Source /\ Dots!net.sink = Dots!Sink
         /\ Dots!Node = {Dots!Source, Mid, Dots!Sink}
         /\ Mid # Dots!Source /\ Mid # Dots!Sink /\ Dots!Source # Dots!Sink
         /\ Into[1] = Dots!Source /\ Into[2] = Mid /\ From[1] = Mid /\ From[2] = Dots!Sink
         /\ Dots!Out(Dots!Source) = {Into} /\ Dots!Out(Mid) = {From} /\ Dots!Out(Dots!Sink) = {}
         /\ Dots!In(Mid) = {Into}
         /\ DOMAIN queue = {Into, From} /\ DOMAIN held = {Dots!Source, Mid, Dots!Sink}
         /\ queue[Into] \in Seq(0 .. length) /\ queue[From] \in Seq(0 .. length)
         /\ held[Mid] \in 0 .. length /\ nsent \in 0 .. length + 1
<1>. DEFINE a == {Dots!Source}
            b == {Mid}
            c == {Dots!Sink}
<1>1. Mid # Dots!Source /\ Mid # Dots!Sink /\ Dots!Source # Dots!Sink
  BY DEF Mid, Dots!W, Dots!Source, Dots!Sink
<1>2. Dots!net = Dots!Network(<<a, b, c>>)
  BY DEF Piped, Dots!net, Dots!pipe, Dots!pipe_square, Mid
<1>3. Dots!Stages(<<a, b, c>>) = (a \X b) \cup (b \X c)
  BY StagesOf
<1>4. Dots!net.channels = {Into, From} /\ Dots!net.source = Dots!Source /\ Dots!net.sink = Dots!Sink
  BY <1>2, <1>3 DEF Dots!Network, Into, From
<1>5. Into[1] = Dots!Source /\ Into[2] = Mid /\ From[1] = Mid /\ From[2] = Dots!Sink
  BY DEF Into, From
<1>6. Into # From
  BY <1>1, <1>5
<1>7. Dots!Node = {Dots!Source, Mid, Dots!Sink}
  <2>1. \A x \in {Into, From} : x = Into \/ x = From
    OBVIOUS
  <2>. QED BY <1>4, <1>5, <2>1 DEF Dots!Node
<1>8. /\ Dots!Out(Dots!Source) = {Into} /\ Dots!Out(Mid) = {From} /\ Dots!Out(Dots!Sink) = {}
      /\ Dots!In(Mid) = {Into}
  BY <1>1, <1>4, <1>5 DEF Dots!Out, Dots!In
<1>9. ~Dots!OpenMP
  BY DEF Piped, Dots!OpenMP
<1>10. DotTypes /\ ChannelsEnd /\ NodesEnd
  BY <1>9 DEF DotParts
<1>11. DOMAIN queue = {Into, From} /\ DOMAIN held = {Dots!Source, Mid, Dots!Sink}
  BY <1>4, <1>7, <1>10 DEF DotTypes
<1>12. /\ queue[Into] \in Seq(0 .. length) /\ queue[From] \in Seq(0 .. length)
       /\ held[Mid] \in 0 .. length /\ nsent \in 0 .. length + 1
  BY <1>10, <1>11 DEF DotTypes, DotQueues, DotNodes
<1>. QED
  BY <1>1, <1>4, <1>5, <1>6, <1>7, <1>8, <1>9, <1>10, <1>11, <1>12

(* A step of a pipeline as a move of the line.                              *)
PipeMoves ==
  LET q == queue[Into]  r == queue[From]  h == held[Mid]
      q2 == queue'[Into]  r2 == queue'[From]  h2 == held'[Mid]
      on == Mid \in running  on2 == (Mid \in running') IN
  \/ /\ nsent < length /\ q2 = Append(q, nsent + 1) /\ nsent' = nsent + 1
     /\ r2 = r /\ h2 = h /\ (on2 <=> on) /\ added' = added
  \/ /\ q2 = Append(q, 0) /\ nsent' = length + 1
     /\ r2 = r /\ h2 = h /\ (on2 <=> on) /\ added' = added
  \/ /\ r # <<>> /\ Head(r) # 0 /\ r2 = Tail(r) /\ added' = [added EXCEPT ![Head(r)] = @ + 1]
     /\ q2 = q /\ h2 = h /\ nsent' = nsent /\ (on2 <=> on)
  \/ /\ q # <<>> /\ Head(q) # 0 /\ h = 0 /\ q2 = Tail(q) /\ h2 = Head(q)
     /\ r2 = r /\ nsent' = nsent /\ (on2 <=> on) /\ added' = added
  \/ /\ h # 0 /\ on /\ h2 = 0 /\ r2 = Append(r, h)
     /\ q2 = q /\ nsent' = nsent /\ (on2 <=> on) /\ added' = added
  \/ /\ q # <<>> /\ Len(q) = 1 /\ nsent > length /\ q2 = <<>> /\ r2 = Append(r, 0) /\ ~on2
     /\ h2 = h /\ nsent' = nsent /\ added' = added
  \/ /\ ~on /\ r2 = <<>> /\ ~on2
     /\ q2 = q /\ h2 = h /\ nsent' = nsent /\ added' = added
  \/ /\ q2 = q /\ r2 = r /\ h2 = h /\ nsent' = nsent /\ (on2 => on) /\ added' = added

(* So a move leaves a line, and what is added up with it.                  *)
LEMMA MoveKeeps ==
  ASSUME DotParts, Piped, NEW k \in Nat, NEW l \in Nat, InPipe(k, l), PipeMoves
  PROVE  \E x, y \in Nat :
           /\ InLine(x, y, queue'[Into], queue'[From], held'[Mid], nsent', Mid \in running')
           /\ \A i \in 1 .. length : added'[i] > 0 <=> i <= x
<1>1. PICK q, r, h, n : q = queue[Into] /\ r = queue[From] /\ h = held[Mid] /\ n = nsent
  OBVIOUS
<1>1a. PICK on : on = (Mid \in running)
  OBVIOUS
<1>2. PICK q2, r2, h2, n2 : q2 = queue'[Into] /\ r2 = queue'[From] /\ h2 = held'[Mid] /\ n2 = nsent'
  OBVIOUS
<1>2a. PICK on2 : on2 = (Mid \in running')
  OBVIOUS
<1>3. /\ q \in Seq(0 .. length) /\ r \in Seq(0 .. length) /\ h \in 0 .. length
      /\ n \in 0 .. length + 1 /\ on \in BOOLEAN /\ on2 \in BOOLEAN
  BY <1>1, <1>1a, <1>2a, PipeFacts
<1>3a. added \in [1 .. length -> Nat] /\ length \in Nat
  BY PipeFacts, FarmAssumption DEF DotTypes
<1>4. InLine(k, l, q, r, h, n, on)
  BY <1>1, <1>1a DEF InPipe
<1>4a. \A i \in 1 .. length : added[i] > 0 <=> i <= k
  BY DEF InPipe
<1>5. /\ n < length => InLine(k, l, Append(q, n + 1), r, h, n + 1, on)
      /\ InLine(k, l, Append(q, 0), r, h, length + 1, on)
      /\ r # <<>> /\ Head(r) # 0 => Head(r) = k + 1 /\ InLine(k + 1, l, q, Tail(r), h, n, on)
      /\ q # <<>> /\ Head(q) # 0 /\ h = 0 => InLine(k, l, Tail(q), r, Head(q), n, on)
      /\ h # 0 /\ on => InLine(k, l + 1, q, Append(r, h), 0, n, on)
      /\ q # <<>> /\ Len(q) = 1 /\ n > length => InLine(k, l, <<>>, Append(r, 0), h, n, FALSE)
      /\ ~on => InLine(k, l, q, <<>>, h, n, on)
      /\ \A x \in BOOLEAN : (x => on) => InLine(k, l, q, r, h, n, x)
  <2>1. LineSteps(k, l, q, r, h, n, on)
    BY <1>3, <1>4, LineMoves
  <2>. QED BY <2>1 DEF LineSteps
<1>6. SUFFICES \E x, y \in Nat : /\ InLine(x, y, q2, r2, h2, n2, on2)
                                 /\ \A i \in 1 .. length : added'[i] > 0 <=> i <= x
  BY <1>2, <1>2a
<1>7. added' = added => \A i \in 1 .. length : added'[i] > 0 <=> i <= k
  BY <1>4a, Zenon
<1>7a. k + 1 \in Nat /\ l + 1 \in Nat
  OBVIOUS
<1>7b. \A x, y \in Nat : InLine(x, y, q2, r2, h2, n2, on2) /\ (\A i \in 1 .. length : added'[i] > 0 <=> i <= x)
         => \E u, v \in Nat : /\ InLine(u, v, q2, r2, h2, n2, on2)
                              /\ \A i \in 1 .. length : added'[i] > 0 <=> i <= u
  BY Zenon
<1>. DEFINE a1 == /\ n < length /\ q2 = Append(q, n + 1) /\ n2 = n + 1
                  /\ r2 = r /\ h2 = h /\ on2 = on /\ added' = added
            a2 == /\ q2 = Append(q, 0) /\ n2 = length + 1
                  /\ r2 = r /\ h2 = h /\ on2 = on /\ added' = added
            a3 == /\ r # <<>> /\ Head(r) # 0 /\ r2 = Tail(r) /\ added' = [added EXCEPT ![Head(r)] = @ + 1]
                  /\ q2 = q /\ h2 = h /\ n2 = n /\ on2 = on
            a4 == /\ q # <<>> /\ Head(q) # 0 /\ h = 0 /\ q2 = Tail(q) /\ h2 = Head(q)
                  /\ r2 = r /\ n2 = n /\ on2 = on /\ added' = added
            a5 == /\ h # 0 /\ on /\ h2 = 0 /\ r2 = Append(r, h)
                  /\ q2 = q /\ n2 = n /\ on2 = on /\ added' = added
            a6 == /\ q # <<>> /\ Len(q) = 1 /\ n > length /\ q2 = <<>> /\ r2 = Append(r, 0) /\ on2 = FALSE
                  /\ h2 = h /\ n2 = n /\ added' = added
            a7 == /\ ~on /\ r2 = <<>> /\ on2 = on
                  /\ q2 = q /\ h2 = h /\ n2 = n /\ added' = added
            a8 == q2 = q /\ r2 = r /\ h2 = h /\ n2 = n /\ (on2 => on) /\ added' = added
<1>8. CASE a1
  <2>1. InLine(k, l, q2, r2, h2, n2, on2)
    BY <1>5, <1>8, Zenon
  <2>. QED BY <1>7, <1>7b, <1>8, <2>1, Zenon
<1>9. CASE a2
  <2>1. InLine(k, l, q2, r2, h2, n2, on2)
    BY <1>5, <1>9, Zenon
  <2>. QED BY <1>7, <1>7b, <1>9, <2>1, Zenon
<1>10. CASE a3
  <2>1. Head(r) = k + 1 /\ InLine(k + 1, l, q2, r2, h2, n2, on2)
    BY <1>5, <1>10, Zenon
  <2>2. k + 1 \in 1 .. length
    <3>0. r # <<>> /\ Head(r) # 0
      BY <1>10
    <3>1. Head(r) \in 0 .. length
      BY <1>3, <3>0, TailRange
    <3>2. k + 1 \in 0 .. length /\ k + 1 # 0
      BY <2>1, <3>0, <3>1
    <3>. QED BY <3>2
  <2>3. \A i \in 1 .. length : added'[i] > 0 <=> i <= k + 1
    <3>0. added' = [added EXCEPT ![k + 1] = added[k + 1] + 1]
      BY <1>10, <2>1
    <3>1. added'[k + 1] = added[k + 1] + 1 /\ \A i \in 1 .. length : i # k + 1 => added'[i] = added[i]
      BY <1>3a, <2>2, <3>0
    <3>2. added[k + 1] \in Nat
      BY <1>3a, <2>2
    <3>3. added'[k + 1] > 0
      BY <3>1, <3>2
    <3>4. \A i \in 1 .. length : i # k + 1 => (i <= k + 1 <=> i <= k)
      OBVIOUS
    <3>5. k + 1 <= k + 1
      OBVIOUS
    <3>. QED BY <1>4a, <3>1, <3>3, <3>4, <3>5, Zenon
  <2>. QED BY <1>7a, <1>7b, <2>1, <2>3, Zenon
<1>11. CASE a4
  <2>1. InLine(k, l, q2, r2, h2, n2, on2)
    BY <1>5, <1>11, Zenon
  <2>. QED BY <1>7, <1>7b, <1>11, <2>1, Zenon
<1>12. CASE a5
  <2>1. InLine(k, l + 1, q2, r2, h2, n2, on2)
    BY <1>5, <1>12, Zenon
  <2>. QED BY <1>7, <1>7a, <1>7b, <1>12, <2>1, Zenon
<1>13. CASE a6
  <2>1. InLine(k, l, q2, r2, h2, n2, on2)
    BY <1>5, <1>13, Zenon
  <2>. QED BY <1>7, <1>7b, <1>13, <2>1, Zenon
<1>14. CASE a7
  <2>1. InLine(k, l, q2, r2, h2, n2, on2)
    BY <1>5, <1>14, Zenon
  <2>. QED BY <1>7, <1>7b, <1>14, <2>1, Zenon
<1>15. CASE a8
  <2>1. InLine(k, l, q2, r2, h2, n2, on2)
    BY <1>3, <1>5, <1>15, Zenon
  <2>. QED BY <1>7, <1>7b, <1>15, <2>1, Zenon
<1>16. PipeMoves => a1 \/ a2 \/ a3 \/ a4 \/ a5 \/ a6 \/ a7 \/ a8
  <2>1. /\ q = queue[Into] /\ r = queue[From] /\ h = held[Mid] /\ n = nsent
        /\ q2 = queue'[Into] /\ r2 = queue'[From] /\ h2 = held'[Mid] /\ n2 = nsent'
    BY <1>1, <1>2
  <2>2. on \in BOOLEAN /\ on2 \in BOOLEAN /\ (on <=> Mid \in running) /\ (on2 <=> Mid \in running')
    BY <1>1a, <1>2a, <1>3, Zenon
  <2>. QED BY <2>1, <2>2 DEF PipeMoves
<1>. HIDE DEF a1, a2, a3, a4, a5, a6, a7, a8
<1>. QED
  BY <1>8, <1>9, <1>10, <1>11, <1>12, <1>13, <1>14, <1>15, <1>16

(* The source sends an item.                                                *)
LEMMA PipeSend ==
  ASSUME DotParts, Piped, Dots!Send
  PROVE  PipeMoves /\ program' = program
<1>1. Dots!Out(Dots!net.source) = {Into} /\ DOMAIN queue = {Into, From} /\ Into # From
  BY PipeFacts
<1>2. /\ nsent < length /\ nsent' = nsent + 1 /\ added' = added /\ held' = held
      /\ running' = running /\ program' = program
      /\ \E c \in Dots!Out(Dots!net.source) : queue' = Dots!Put(queue, c, nsent')
  BY <1>1 DEF Dots!Send
<1>3. queue' = [queue EXCEPT ![Into] = Append(@, nsent + 1)]
  BY <1>1, <1>2 DEF Dots!Put
<1>4. queue'[Into] = Append(queue[Into], nsent + 1) /\ queue'[From] = queue[From]
  BY <1>1, <1>3
<1>. QED
  BY <1>2, <1>4 DEF PipeMoves

(* The source sends EOS.                                                    *)
LEMMA PipeSendEOS ==
  ASSUME DotParts, Piped, Dots!SendEOS
  PROVE  PipeMoves /\ program' = program
<1>1. /\ Dots!Out(Dots!net.source) = {Into} /\ DOMAIN queue = {Into, From} /\ Into # From
      /\ Mid # Dots!net.source
  BY PipeFacts
<1>2. /\ nsent' = nsent + 1 /\ nsent = length /\ added' = added /\ held' = held
      /\ program' = program /\ queue' = Dots!Broadcast(queue, Dots!net.source)
      /\ running' = IF Dots!net.alive THEN running ELSE running \ {Dots!net.source}
  BY DEF Dots!SendEOS
<1>3. queue'[Into] = Append(queue[Into], 0) /\ queue'[From] = queue[From]
  BY <1>1, <1>2 DEF Dots!Broadcast, Dots!EOS
<1>4. nsent' = length + 1 /\ (Mid \in running' <=> Mid \in running)
  BY <1>1, <1>2
<1>. QED
  BY <1>2, <1>3, <1>4 DEF PipeMoves

(* The sink adds an item up.                                                *)
LEMMA PipeSum ==
  ASSUME DotParts, Piped, NEW c \in {Into, From}, Dots!Sum(c)
  PROVE  PipeMoves /\ program' = program
<1>1. /\ DOMAIN queue = {Into, From} /\ Into # From /\ Dots!net.sink = Dots!Sink
      /\ Into[2] = Mid /\ Mid # Dots!Sink
  BY PipeFacts
<1>2. /\ c[2] = Dots!net.sink /\ queue[c] # <<>> /\ Head(queue[c]) # 0
      /\ added' = [added EXCEPT ![Head(queue[c])] = @ + 1]
      /\ queue' = [queue EXCEPT ![c] = Tail(@)]
      /\ program' = program /\ nsent' = nsent /\ held' = held /\ running' = running
  BY DEF Dots!Sum, Dots!Receives, Dots!Added, Dots!EOS
<1>3. c = From
  BY <1>1, <1>2
<1>4. queue'[From] = Tail(queue[From]) /\ queue'[Into] = queue[Into]
  BY <1>1, <1>2, <1>3
<1>. QED
  BY <1>2, <1>3, <1>4 DEF PipeMoves

(* The middle node takes an item.                                           *)
LEMMA PipeBegin ==
  ASSUME DotParts, Piped, NEW c \in {Into, From}, Dots!Begin(c)
  PROVE  PipeMoves /\ program' = program
<1>1. /\ DOMAIN queue = {Into, From} /\ Into # From /\ Dots!net.sink = Dots!Sink
      /\ Into[2] = Mid /\ From[2] = Dots!Sink /\ DOMAIN held = {Dots!Source, Mid, Dots!Sink}
  BY PipeFacts
<1>2. /\ c[2] # Dots!net.sink /\ queue[c] # <<>> /\ Head(queue[c]) # 0 /\ held[c[2]] = 0
      /\ held' = [held EXCEPT ![c[2]] = Head(queue[c])]
      /\ queue' = [queue EXCEPT ![c] = Tail(@)]
      /\ program' = program /\ nsent' = nsent /\ added' = added /\ running' = running
  BY DEF Dots!Begin, Dots!Receives, Dots!EOS
<1>3. c = Into
  BY <1>1, <1>2
<1>4. /\ queue'[Into] = Tail(queue[Into]) /\ queue'[From] = queue[From]
      /\ held[Mid] = 0 /\ held'[Mid] = Head(queue[Into])
      /\ queue[Into] # <<>> /\ Head(queue[Into]) # 0
  BY <1>1, <1>2, <1>3
<1>. QED
  BY <1>2, <1>4 DEF PipeMoves

(* The middle node sends on what it holds.                                  *)
LEMMA PipeForward ==
  ASSUME DotParts, Piped, NEW n \in Dots!Node, Dots!Forward(n)
  PROVE  PipeMoves /\ program' = program
<1>1. /\ DOMAIN queue = {Into, From} /\ Into # From
      /\ Dots!net.sink = Dots!Sink /\ Dots!net.source = Dots!Source
      /\ Dots!Node = {Dots!Source, Mid, Dots!Sink} /\ DOMAIN held = {Dots!Source, Mid, Dots!Sink}
      /\ Dots!Out(Mid) = {From} /\ NodesEnd
  BY PipeFacts
<1>2. /\ held[n] # 0 /\ held' = [held EXCEPT ![n] = 0]
      /\ \E c \in Dots!Out(n) : queue' = Dots!Put(queue, c, held[n])
      /\ program' = program /\ nsent' = nsent /\ added' = added /\ running' = running
  BY DEF Dots!Forward, Dots!EOS
<1>3. n = Mid /\ Mid \in running
  BY <1>1, <1>2 DEF NodesEnd
<1>4. queue' = [queue EXCEPT ![From] = Append(@, held[Mid])]
  BY <1>1, <1>2, <1>3 DEF Dots!Put
<1>5. /\ queue'[From] = Append(queue[From], held[Mid]) /\ queue'[Into] = queue[Into]
      /\ held'[Mid] = 0 /\ held[Mid] # 0
  BY <1>1, <1>2, <1>3, <1>4
<1>. QED
  BY <1>2, <1>3, <1>5 DEF PipeMoves

(* A node takes EOS: the middle one sends it on, behind the last item.      *)
LEMMA PipeEOS ==
  ASSUME DotParts, Piped, NEW c \in {Into, From}, Dots!ReceiveEOS(c)
  PROVE  PipeMoves /\ program' = program
<1>1. /\ DOMAIN queue = {Into, From} /\ Into # From /\ Dots!net.channels = {Into, From}
      /\ Dots!net.sink = Dots!Sink /\ Dots!net.source = Dots!Source
      /\ Into[1] = Dots!Source /\ Into[2] = Mid /\ From[1] = Mid /\ From[2] = Dots!Sink
      /\ Mid # Dots!Source /\ Mid # Dots!Sink /\ Dots!Source # Dots!Sink
      /\ Dots!Out(Mid) = {From} /\ Dots!Out(Dots!Sink) = {} /\ Dots!In(Mid) = {Into}
      /\ ChannelsEnd
      /\ queue[Into] \in Seq(0 .. length) /\ queue[From] \in Seq(0 .. length)
  BY PipeFacts
<1>. DEFINE t == [queue EXCEPT ![c] = Tail(@)]
<1>2. /\ queue[c] # <<>> /\ Head(queue[c]) = 0 /\ c[2] \in running
      /\ eosFrom' = eosFrom \cup {c}
      /\ \/ /\ Dots!In(c[2]) \subseteq eosFrom' /\ running' = running \ {c[2]}
            /\ queue' = IF c[2] = Dots!net.source THEN t ELSE Dots!Broadcast(t, c[2])
         \/ ~(Dots!In(c[2]) \subseteq eosFrom') /\ queue' = t /\ running' = running
      /\ program' = program /\ nsent' = nsent /\ added' = added /\ held' = held
  BY DEF Dots!ReceiveEOS, Dots!Receives, Dots!InputEnded, Dots!EOS
<1>3. DOMAIN t = {Into, From} /\ t[c] = Tail(queue[c]) /\ \A d \in {Into, From} : d # c => t[d] = queue[d]
  BY <1>1
<1>4. Delivers(queue[c], StateOf(c[1]), c \in eosFrom)
  BY <1>1 DEF ChannelsEnd
<1>5. /\ Len(queue[c]) = 1 /\ StateOf(c[1]) = "ended" /\ Tail(queue[c]) = <<>>
  <2>1. ASSUME NEW s \in Seq(0 .. length), s # <<>>, Head(s) = 0, \A k \in DOMAIN s : s[k] = 0 => k = Len(s)
        PROVE  Len(s) = 1 /\ 1 \in DOMAIN s /\ s[1] = 0 /\ Tail(s) = <<>>
    <3>1. 1 \in DOMAIN s /\ s[1] = 0
      BY <2>1
    <3>2. Len(s) = 1
      BY <2>1, <3>1
    <3>3. Tail(s) \in Seq(0 .. length) /\ Len(Tail(s)) = 0
      BY <2>1, <3>2
    <3>4. ASSUME NEW u \in Seq(0 .. length), Len(u) = 0 PROVE u = <<>>
      BY <3>4
    <3>5. Tail(s) = <<>>
      BY <3>3, <3>4
    <3>. QED BY <3>1, <3>2, <3>5
  <2>2. queue[c] \in Seq(0 .. length) /\ \A k \in DOMAIN queue[c] : queue[c][k] = 0 => k = Len(queue[c]) /\ StateOf(c[1]) = "ended"
    BY <1>1, <1>4 DEF Delivers
  <2>3. Len(queue[c]) = 1 /\ 1 \in DOMAIN queue[c] /\ queue[c][1] = 0 /\ Tail(queue[c]) = <<>>
    BY <1>2, <2>1, <2>2
  <2>. QED BY <2>2, <2>3
<1>. HIDE DEF t
<1>6. Finished(c[1])
  BY <1>5 DEF StateOf
<1>7. CASE c = Into
  <2>1. nsent > length
    BY <1>1, <1>6, <1>7 DEF Finished
  <2>2. Dots!In(c[2]) \subseteq eosFrom'
    BY <1>1, <1>2, <1>7
  <2>3. running' = running \ {Mid} /\ queue' = Dots!Broadcast(t, Mid)
    BY <1>1, <1>2, <1>7, <2>2
  <2>4. queue'[Into] = <<>> /\ queue'[From] = Append(queue[From], 0)
    BY <1>1, <1>3, <1>5, <1>7, <2>3 DEF Dots!Broadcast, Dots!EOS
  <2>5. queue[Into] # <<>> /\ Len(queue[Into]) = 1 /\ ~(Mid \in running')
    BY <1>2, <1>5, <1>7, <2>3
  <2>. QED BY <1>2, <2>1, <2>4, <2>5 DEF PipeMoves
<1>8. CASE c = From
  <2>1. ~(Mid \in running)
    BY <1>1, <1>6, <1>8 DEF Finished
  <2>2. Dots!Broadcast(t, c[2]) = t
    <3>1. \A d \in DOMAIN t : d \notin Dots!Out(c[2])
      BY <1>1, <1>8
    <3>2. t = [d \in DOMAIN t |-> t[d]]
      BY DEF t
    <3>. QED BY <3>1, <3>2 DEF Dots!Broadcast
  <2>3. queue' = t /\ running' \subseteq running
    BY <1>2, <2>2
  <2>4. queue'[From] = <<>> /\ queue'[Into] = queue[Into]
    BY <1>1, <1>3, <1>5, <1>8, <2>3
  <2>5. ~(Mid \in running')
    BY <2>1, <2>3
  <2>. QED BY <1>2, <2>1, <2>4, <2>5 DEF PipeMoves
<1>. QED BY <1>7, <1>8

(* Every step of a pipeline is a move of the line.                          *)
LEMMA PipeStep ==
  ASSUME DotParts, Piped, Dots!Next \/ UNCHANGED dotsVars
  PROVE  PipeMoves /\ program' = program
<1>1. ~Dots!OpenMP /\ Dots!net.channels = {Into, From}
  BY PipeFacts
<1>2. CASE Dots!SourceStep
  BY <1>2, PipeSend, PipeSendEOS DEF Dots!SourceStep
<1>3. ASSUME NEW n \in Dots!Node, Dots!NodeStep(n)
      PROVE  PipeMoves /\ program' = program
  <2>1. CASE Dots!Forward(n)
    BY <2>1, PipeForward
  <2>2. ASSUME NEW c \in Dots!In(n), Dots!Sum(c) \/ Dots!Begin(c) \/ Dots!ReceiveEOS(c)
        PROVE  PipeMoves /\ program' = program
    <3>1. c \in {Into, From}
      BY <1>1 DEF Dots!In
    <3>2. CASE Dots!Sum(c)
      BY <3>1, <3>2, PipeSum
    <3>3. CASE Dots!Begin(c)
      BY <3>1, <3>3, PipeBegin
    <3>4. CASE Dots!ReceiveEOS(c)
      BY <3>1, <3>4, PipeEOS
    <3>. QED BY <2>2, <3>2, <3>3, <3>4
  <2>. QED BY <1>3, <2>1, <2>2 DEF Dots!NodeStep
<1>4. ~Dots!Region /\ \A n : ~Dots!ThreadStep(n)
  BY <1>1 DEF Dots!Region, Dots!CreateTask, Dots!RegionEnds, Dots!ThreadStep, Dots!BeginTask, Dots!EndTask
<1>5. CASE Dots!Ended \/ UNCHANGED dotsVars
  <2>1. UNCHANGED dotsVars
    BY <1>5 DEF Dots!Ended, Dots!vars, dotsVars
  <2>2. /\ queue' = queue /\ held' = held /\ nsent' = nsent /\ running' = running /\ added' = added
        /\ program' = program
    BY <2>1 DEF dotsVars
  <2>. QED BY <2>2 DEF PipeMoves
<1>. QED
  BY <1>2, <1>3, <1>4, <1>5 DEF Dots!Next

(* A collector of an ordered farm adds up an item when all before it are.   *)
LEMMA TurnStep ==
  ASSUME DotParts, program = "farm3_ordered", Dots!Next \/ UNCHANGED dotsVars
  PROVE  /\ program' = program
         /\ \/ added' = added
            \/ \E i \in 1 .. length : /\ \A j \in 1 .. i - 1 : added[j] > 0
                                      /\ added' = [added EXCEPT ![i] = @ + 1]
<1>. DEFINE Stepped ==
       /\ program' = program
       /\ \/ added' = added
          \/ \E i \in 1 .. length : /\ \A j \in 1 .. i - 1 : added[j] > 0
                                    /\ added' = [added EXCEPT ![i] = @ + 1]
<1>1. ~Dots!OpenMP
  BY DEF Dots!OpenMP
<1>2. Dots!net.ordered /\ Dots!net.source = Dots!Source
  BY DEF Dots!net, Dots!farm3_ordered, Dots!farm3, Dots!OnDemandFarm, Dots!Network
<1>3. Dots!Out(Dots!Source) # {}
  <2>. DEFINE b == Dots!Workers
              f == Dots!Network(<<{Dots!Source}, b, {Dots!Sink}>>)
  <2>1. Dots!net.channels = Dots!Stages(<<{Dots!Source}, b, {Dots!Sink}>>)
    BY DEF Dots!net, Dots!farm3_ordered, Dots!farm3, Dots!OnDemandFarm, Dots!Network
  <2>2. Dots!net.channels = ({Dots!Source} \X b) \cup (b \X {Dots!Sink})
    BY <2>1, StagesOf
  <2>3. Dots!W(1) \in b
    BY FarmAssumption DEF Dots!Workers
  <2>4. <<Dots!Source, Dots!W(1)>> \in Dots!net.channels
    BY <2>2, <2>3
  <2>. QED BY <2>4 DEF Dots!Out
<1>4. DotTypes /\ DOMAIN queue = Dots!net.channels
  BY DEF DotParts, DotTypes
<1>5. CASE Dots!SourceStep
  BY <1>2, <1>3, <1>5 DEF Dots!SourceStep, Dots!Send, Dots!SendEOS
<1>6. ASSUME NEW n \in Dots!Node, Dots!NodeStep(n)
      PROVE  Stepped
  <2>1. CASE Dots!Forward(n)
    BY <2>1 DEF Dots!Forward
  <2>2. ASSUME NEW c \in Dots!In(n), Dots!Sum(c)
        PROVE  Stepped
    <3>1. c \in DOMAIN queue
      BY <1>4 DEF Dots!In
    <3>2. PICK i : i = Head(queue[c])
      OBVIOUS
    <3>3. queue[c] # <<>> /\ i # 0 /\ Dots!InTurn(i) /\ added' = [added EXCEPT ![i] = @ + 1]
      BY <2>2, <3>2 DEF Dots!Sum, Dots!Receives, Dots!EOS, Dots!Added
    <3>4. queue[c] \in Seq(0 .. length)
      BY <1>4, <3>1 DEF DotTypes, DotQueues
    <3>5. i \in 0 .. length
      BY <3>2, <3>3, <3>4, TailRange
    <3>6. i \in 1 .. length
      BY <3>3, <3>5, FarmAssumption
    <3>7. \A j \in 1 .. i - 1 : added[j] > 0
      BY <1>2, <3>3 DEF Dots!InTurn
    <3>8. program' = program
      BY <2>2 DEF Dots!Sum
    <3>. QED BY <3>3, <3>6, <3>7, <3>8
  <2>3. ASSUME NEW c \in Dots!In(n), Dots!Begin(c) \/ Dots!ReceiveEOS(c)
        PROVE  Stepped
    BY <2>3 DEF Dots!Begin, Dots!ReceiveEOS
  <2>. QED BY <1>6, <2>1, <2>2, <2>3 DEF Dots!NodeStep
<1>7. ~Dots!Region /\ \A n : ~Dots!ThreadStep(n)
  BY <1>1 DEF Dots!Region, Dots!CreateTask, Dots!RegionEnds, Dots!ThreadStep, Dots!BeginTask, Dots!EndTask
<1>8. CASE Dots!Ended \/ UNCHANGED dotsVars
  BY <1>8 DEF Dots!Ended, Dots!vars, dotsVars
<1>. QED
  BY <1>5, <1>6, <1>7, <1>8 DEF Dots!Next

(* The three programs start with nothing sent.                              *)
LEMMA OrderStart == Dots!Init => OrderInv
<1>. SUFFICES ASSUME Dots!Init PROVE OrderInv
  OBVIOUS
<1>1. /\ nsent = 0 /\ program \in Dots!Programs /\ added = [i \in 1 .. length |-> 0]
      /\ held = [n \in Dots!Node |-> 0] /\ queue = [c \in Dots!net.channels |-> <<>>]
  BY DEF Dots!Init, Dots!EOS, Dots!Item
<1>2. ASSUME Piped PROVE InPipe(0, 0)
  <2>1. DotParts
    BY DotStart
  <2>2. Into \in Dots!net.channels /\ From \in Dots!net.channels /\ Mid \in Dots!Node
    BY <1>2, <2>1, PipeFacts
  <2>3. queue[Into] = <<>> /\ queue[From] = <<>> /\ held[Mid] = 0
    BY <1>1, <2>2
  <2>4. \A k \in 1 .. Len(<<>>) : FALSE
    OBVIOUS
  <2>5. Len(<<>>) = 0
    OBVIOUS
  <2>6. \A on \in BOOLEAN : InLine(0, 0, <<>>, <<>>, 0, 0, on)
    BY <2>4, <2>5 DEF InLine
  <2>7. (Mid \in running) \in BOOLEAN
    OBVIOUS
  <2>8. InLine(0, 0, queue[Into], queue[From], held[Mid], nsent, Mid \in running)
    BY <1>1, <2>3, <2>6, <2>7, Zenon
  <2>9. \A i \in 1 .. length : added[i] > 0 <=> i <= 0
    BY <1>1
  <2>. QED BY <2>8, <2>9 DEF InPipe
<1>3. \A i \in 1 .. length : ~(added[i] > 0)
  BY <1>1
<1>. QED
  BY <1>2, <1>3 DEF OrderInv

(* Every step keeps the order.                                              *)
LEMMA OrderStep ==
  ASSUME DotParts, OrderInv, Dots!Next \/ UNCHANGED dotsVars
  PROVE  OrderInv'
<1>1. CASE Piped
  <2>1. PipeMoves /\ program' = program
    BY <1>1, PipeStep
  <2>2. PICK k \in Nat, l \in Nat : InPipe(k, l)
    BY <1>1 DEF OrderInv
  <2>3. PICK x, y \in Nat :
           /\ InLine(x, y, queue'[Into], queue'[From], held'[Mid], nsent', Mid \in running')
           /\ \A i \in 1 .. length : added'[i] > 0 <=> i <= x
    BY <1>1, <2>1, <2>2, MoveKeeps
  <2>4. InPipe(x, y)'
    BY <2>3 DEF InPipe, Into, From, Mid, Dots!W, Dots!Source, Dots!Sink, InLine
  <2>5. program' # "farm3_ordered"
    BY <1>1, <2>1 DEF Piped
  <2>. QED BY <2>4, <2>5 DEF OrderInv
<1>2. CASE ~Piped
  <2>1. program = "farm3_ordered" => program' = program
    BY TurnStep
  <2>2. CASE program = "farm3_ordered"
    <3>1. \/ added' = added
          \/ \E i \in 1 .. length : /\ \A j \in 1 .. i - 1 : added[j] > 0
                                    /\ added' = [added EXCEPT ![i] = @ + 1]
      BY <2>2, TurnStep
    <3>2. \A i, j \in 1 .. length : i < j /\ added[j] > 0 => added[i] > 0
      BY <2>2 DEF OrderInv
    <3>3. added \in [1 .. length -> Nat] /\ length \in Nat
      BY FarmAssumption DEF DotParts, DotTypes
    <3>4. ASSUME NEW i \in 1 .. length, NEW j \in 1 .. length, i < j, added'[j] > 0
          PROVE  added'[i] > 0
      <4>1. CASE added' = added
        BY <3>2, <3>4, <4>1
      <4>2. ASSUME NEW n \in 1 .. length, \A m \in 1 .. n - 1 : added[m] > 0,
                   added' = [added EXCEPT ![n] = @ + 1]
            PROVE  added'[i] > 0
        <5>1. /\ added'[i] = (IF i = n THEN added[i] + 1 ELSE added[i])
              /\ j # n => added'[j] = added[j]
          BY <3>3, <4>2
        <5>2. added[i] \in Nat
          BY <3>3
        <5>3. CASE j = n
          <6>1. added[i] > 0
            BY <3>4, <4>2, <5>3
          <6>. QED BY <5>1, <5>2, <6>1
        <5>4. CASE j # n
          <6>1. added[i] > 0
            BY <3>2, <3>4, <5>1, <5>4
          <6>. QED BY <5>1, <5>2, <6>1
        <5>. QED BY <5>3, <5>4
      <4>. QED BY <3>1, <4>1, <4>2
    <3>5. ~Piped'
      BY <2>1, <2>2 DEF Piped
    <3>. QED BY <3>4, <3>5 DEF OrderInv
  <2>3. CASE program # "farm3_ordered"
    <3>1. program' = program
      <4>1. Dots!Next => program' = program
        BY DEF Dots!Next, Dots!SourceStep, Dots!Send, Dots!SendEOS, Dots!Region, Dots!CreateTask,
               Dots!RegionEnds, Dots!NodeStep, Dots!Forward, Dots!Sum, Dots!Begin, Dots!ReceiveEOS,
               Dots!ThreadStep, Dots!BeginTask, Dots!EndTask, Dots!Ended, Dots!vars
      <4>. QED BY <4>1 DEF dotsVars
    <3>. QED BY <1>2, <2>3, <3>1 DEF OrderInv, Piped
  <2>. QED BY <2>2, <2>3
<1>. QED
  BY <1>1, <1>2

(* So the items come in order.                                              *)
LEMMA OrderFacts ==
  ASSUME DotParts, OrderInv
  PROVE  Dots!InOrder
<1>. SUFFICES ASSUME program \in {"pipe", "pipe_square", "farm3_ordered"},
                     NEW i \in 1 .. length, NEW j \in 1 .. length, i < j, added[j] > 0
              PROVE  added[i] > 0
  BY DEF Dots!InOrder, Dots!Item
<1>1. CASE Piped
  <2>1. PICK k \in Nat, l \in Nat : InPipe(k, l)
    BY <1>1 DEF OrderInv
  <2>2. \A x \in 1 .. length : added[x] > 0 <=> x <= k
    BY <2>1 DEF InPipe
  <2>3. j <= k
    BY <2>2
  <2>4. i <= k
    BY <2>3
  <2>. QED BY <2>2, <2>4
<1>2. CASE program = "farm3_ordered"
  BY <1>2 DEF OrderInv
<1>. QED
  BY <1>1, <1>2 DEF Piped
=============================================================================
