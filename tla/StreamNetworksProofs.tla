------------------------ MODULE StreamNetworksProofs -------------------------
(***************************************************************************)
(* What the invariants of ItemNetworksProofs say of the programs of        *)
(* StreamNetworks: Wf_ff.cpp implements the wavefront, what is on its way  *)
(* is counted right, EOS comes behind the last item, results keep the      *)
(* order of the input, and what comes out of the farms, pipelines, loops   *)
(* and regions is the abstract Stream.  What the compressors do to files   *)
(* when calls fail: the inductive invariants of both are here.             *)
(***************************************************************************)
EXTENDS StreamNetworks, ItemNetworksProofs

-----------------------------------------------------------------------------
(* The wavefront starts in its invariant.                                   *)
LEMMA WaveInitial == Init => WaveInv
<1>. SUFFICES ASSUME Init, network = "wavefront"
              PROVE  Channels /\ BeforeFirst
  BY DEF WaveInv
<1>1. Wave!FFInit
  BY DEF Init, InitOf
<1>. QED
  BY <1>1 DEF Wave!FFInit, Wave!Init, Channels, BeforeFirst, Free

(* Every step of the module keeps the invariant of the wavefront, and       *)
(* computes at most one element.                                            *)
LEMMA WaveNext ==
  ASSUME WaveInv, [Next]_vars
  PROVE  /\ WaveInv'
         /\ \/ network = "wavefront" /\ network' = network
               /\ (M' = M \/ \E c \in Wave!Cell : Wave!Compute(c))
            \/ network # "wavefront" /\ network' = network
<1>1. CASE network # "wavefront"
  BY <1>1 DEF Next, vars, InFarm, InLoops, InWave, InDots, InComp, InWalk, InFlow,
              InDac, WaveInv
<1>2. CASE network = "wavefront"
  <2>1. \/ Wave!FFNext /\ network' = network
        \/ UNCHANGED <<network, wavefrontVars>>
    BY <1>2 DEF Next, vars, InFarm, InLoops, InWave, InDots, InComp, InWalk, InFlow,
                InDac
  <2>2. CASE Wave!FFNext /\ network' = network
    BY <1>2, <2>2, WaveStep DEF WaveInv
  <2>3. CASE UNCHANGED <<network, wavefrontVars>>
    BY <1>2, <2>3, WaveStutter DEF WaveInv, wavefrontVars
  <2>. QED
    BY <2>1, <2>2, <2>3
<1>. QED
  BY <1>1, <1>2

(* The farm of Wf_ff.cpp implements the wavefront: whatever the workers do  *)
(* in which order, every step computes at most one element, not computed    *)
(* before, whose factors are all computed.                                  *)
THEOREM WavefrontImplemented == Spec => AbstractWavefront
<1>1. Init => Elements!Init
  <2>. SUFFICES ASSUME Init PROVE Matrix = Elements!InitialM
    BY DEF Elements!Init
  <2>1. Wave!InitialM = Elements!InitialM
    BY DEF Wave!InitialM, Elements!InitialM, Wave!Cell, Elements!Cell, Wave!Diag,
           Elements!Diag
  <2>2. network = "wavefront" => M = Wave!InitialM
    BY DEF Init, InitOf, Wave!FFInit, Wave!Init
  <2>. QED
    BY <2>1, <2>2 DEF Matrix
<1>2. ASSUME WaveInv, [Next]_vars
      PROVE  [Elements!Next]_Matrix
  <2>1. CASE network # "wavefront" /\ network' = network
    BY <2>1 DEF Matrix, Wave!InitialM
  <2>2. CASE network = "wavefront" /\ network' = network
    <3>1. Matrix = M /\ Matrix' = M'
      BY <2>2 DEF Matrix
    <3>2. ASSUME NEW c \in Wave!Cell, Wave!Compute(c)
          PROVE  Elements!Next
      <4>1. c \in Elements!Cell /\ Elements!Reads(c) = Wave!Reads(c)
        BY DEF Wave!Cell, Elements!Cell, Wave!Diag, Elements!Diag, Wave!Reads, Elements!Reads,
               Wave!Factors, Elements!Factors
      <4>. QED
        BY <3>1, <3>2, <4>1 DEF Wave!Compute, Elements!Compute, Elements!Next
    <3>. QED
      BY <1>2, <2>2, <3>1, <3>2, WaveNext
  <2>. QED
    BY <1>2, <2>1, <2>2, WaveNext
<1>3. ASSUME WaveInv, [Next]_vars
      PROVE  WaveInv'
  BY <1>3, WaveNext
<1>. QED
  BY <1>1, <1>2, <1>3, WaveInitial, PTL DEF Spec, AbstractWavefront

-----------------------------------------------------------------------------
(* The farm and the loops inside the programs of the module: the others do  *)
(* not touch their variables.                                               *)
LEMMA FarmInitial == Init => FarmInv
<1>. SUFFICES ASSUME Init, network = "farm" PROVE FarmParts
  BY DEF FarmInv
<1>1. Farm!Init
  BY DEF Init, InitOf
<1>. QED
  BY <1>1, FarmStart

(* A step of the module is a step of the farm or leaves it alone.           *)
LEMMA FarmSteps ==
  ASSUME [Next]_vars
  PROVE  /\ network' = network
         /\ network = "farm" => Farm!Next \/ UNCHANGED farmVars
BY DEF Next, vars, InFarm, InLoops, InWave, InDots, InComp, InWalk, InFlow, InDac

(* A program that stops keeps the invariant of the farm.                    *)
LEMMA FarmRests == FarmParts /\ UNCHANGED farmVars => FarmParts'
BY DEF farmVars, FarmParts, FarmTypes, SourceEnd, Serves, Told, Serving, Finishing, Delivers,
       ResultsEnd, OnItsWay, InFarmOf, TaskOnce

(* Every step of the module keeps the invariant of the farm.                *)
LEMMA FarmNext ==
  ASSUME FarmInv, [Next]_vars
  PROVE  FarmInv'
BY FarmSteps, FarmStep, FarmRests DEF FarmInv

(* The loops start in their invariant, whatever program runs.               *)
LEMMA LoopInitial == Init => LoopInv
<1>. SUFFICES ASSUME Init, network = "loops" PROVE LoopParts
  BY DEF LoopInv
<1>1. Loops!Init
  BY DEF Init, InitOf
<1>. QED
  BY <1>1, LoopStart

(* A step of the module is a step of the loops or leaves them alone.        *)
LEMMA LoopSteps ==
  ASSUME [Next]_vars
  PROVE  /\ network' = network
         /\ network = "loops" => Loops!Next \/ UNCHANGED loopsVars
BY DEF Next, vars, InFarm, InLoops, InWave, InDots, InComp, InWalk, InFlow, InDac

(* A program that stops keeps the invariant of the loops.                   *)
LEMMA LoopRests == LoopParts /\ UNCHANGED loopsVars => LoopParts'
<1>. SUFFICES ASSUME LoopParts, UNCHANGED loopsVars PROVE LoopParts'
  OBVIOUS
<1>1. /\ emitted' = emitted /\ returned' = returned /\ stage0' = stage0 /\ onthefly' = onthefly
      /\ eosreceived' = eosreceived /\ forwarded' = forwarded /\ stageB' = stageB
      /\ toA' = toA /\ toB' = toB /\ to1' = to1 /\ loopA' = loopA /\ loop0' = loop0
      /\ printed' = printed
  BY DEF loopsVars
<1>2. NotForwarded' = NotForwarded
  BY <1>1 DEF NotForwarded
<1>3. LoopTypes' /\ Forwarding' /\ OuterLoop' /\ InnerLoop' /\ OuterEnd' /\ InnerEnd'
  BY <1>1, <1>2 DEF LoopParts, LoopTypes, Forwarding, OuterLoop, InnerLoop, OuterEnd, InnerEnd,
                    Items, Occurs
<1>4. \A i \in 1 .. length : ItemOnce(i)'
  BY <1>1, <1>2 DEF LoopParts, ItemOnce, Occurs
<1>. QED
  BY <1>3, <1>4 DEF LoopParts

(* Every step of the module keeps the invariant of the loops.               *)
LEMMA LoopNext ==
  ASSUME LoopInv, [Next]_vars
  PROVE  LoopInv'
BY LoopSteps, LoopStep, LoopRests DEF LoopInv

(* What is on its way is counted right, in the farm on demand, the nested   *)
(* loops and the wavefront: of each the inductive invariant says where      *)
(* every item is.                                                           *)
THEOREM CountedInFlight == Spec => []InFlightCounted
<1>1. Init => WaveInv /\ LoopInv /\ FarmInv
  BY WaveInitial, LoopInitial, FarmInitial
<1>2. WaveInv /\ LoopInv /\ FarmInv /\ [Next]_vars => (WaveInv /\ LoopInv /\ FarmInv)'
  BY WaveNext, LoopNext, FarmNext
<1>3. WaveInv /\ LoopInv /\ FarmInv => InFlightCounted
  BY WaveCounts, LoopFacts, FarmFacts DEF WaveInv, LoopInv, FarmInv, InFlightCounted
<1>. QED
  BY <1>1, <1>2, <1>3, PTL DEF Spec

(* The networks start in their invariant, whatever program runs.            *)
LEMMA DotInitial == Init => DotInv
<1>. SUFFICES ASSUME Init, network = "dots" PROVE DotParts
  BY DEF DotInv
<1>1. Dots!Init
  BY DEF Init, InitOf
<1>. QED
  BY <1>1, DotStart

(* A step of the module is a step of the networks or leaves them alone.     *)
LEMMA DotSteps ==
  ASSUME [Next]_vars
  PROVE  /\ network' = network
         /\ network = "dots" => Dots!Next \/ UNCHANGED dotsVars
BY DEF Next, vars, InFarm, InLoops, InWave, InDots, InComp, InWalk, InFlow, InDac

(* Every step of the module keeps the invariant of the networks.            *)
LEMMA DotNext ==
  ASSUME DotInv, [Next]_vars
  PROVE  DotInv'
BY DotSteps, DotStep DEF DotInv

(* Whoever sends EOS sends it behind the last item, in the farms, the       *)
(* pipelines, the loops and the wavefront, and nothing is on its way when   *)
(* the sink has ended.                                                      *)
THEOREM EOSIsLast == Spec => []EOSBehindLast
<1>1. Init => WaveInv /\ LoopInv /\ FarmInv /\ DotInv
  BY WaveInitial, LoopInitial, FarmInitial, DotInitial
<1>2. WaveInv /\ LoopInv /\ FarmInv /\ DotInv /\ [Next]_vars
      => (WaveInv /\ LoopInv /\ FarmInv /\ DotInv)'
  BY WaveNext, LoopNext, FarmNext, DotNext
<1>3. WaveInv /\ LoopInv /\ FarmInv /\ DotInv => EOSBehindLast
  BY WaveEOS, LoopFacts, FarmFacts, DotFacts DEF WaveInv, LoopInv, FarmInv, DotInv, EOSBehindLast
<1>. QED
  BY <1>1, <1>2, <1>3, PTL DEF Spec

(* The farms, the pipelines, the nested loops and the OpenMP regions of     *)
(* example6 implement a stream: a step lets at most one item come out, none *)
(* a second time and none behind the end, and the end comes behind all.     *)
THEOREM StreamsImplemented == Spec => NetworksAreStreams
<1>1. Init => Out!Init
  <2>. SUFFICES ASSUME Init PROVE Out!Init
    OBVIOUS
  <2>1. CASE network = "farm"
    <3>1. sum = [t \in 1 .. length |-> 0] /\ sink = "running"
      BY <2>1 DEF Init, InitOf, Farm!Init, Farm!Task
    <3>. QED
      BY <2>1, <3>1 DEF Out!Init
  <2>2. CASE network = "loops"
    <3>1. printed = [i \in 1 .. length |-> 0] /\ ~Loops!Over
      BY <2>2 DEF Init, InitOf, Loops!Init, Loops!Item, Loops!Over
    <3>. QED
      BY <2>2, <3>1 DEF Out!Init
  <2>3. CASE network = "dots"
    <3>1. Dots!Init
      BY <2>3 DEF Init, InitOf
    <3>2. added = [i \in 1 .. length |-> 0] /\ running = Dots!Node /\ program \in Dots!Programs
      BY <3>1 DEF Dots!Init, Dots!Item
    <3>3. ~Dots!Over
      BY <3>2, NetworkFacts DEF NetFacts, Dots!Over
    <3>. QED
      BY <2>3, <3>2, <3>3 DEF Out!Init
  <2>4. CASE network \notin {"farm", "loops", "dots"}
    BY <2>4 DEF Out!Init, NothingYet
  <2>. QED
    BY <2>1, <2>2, <2>3, <2>4
<1>2. ASSUME LoopInv, FarmInv, DotInv, [Next]_vars
      PROVE  [Out!Next]_(Out!vars)
  <2>0. network' = network
    BY <1>2, DotSteps
  <2>1. CASE network = "farm"
    <3>1. FarmParts /\ (Farm!Next \/ UNCHANGED farmVars)
      BY <1>2, <2>1, FarmSteps DEF FarmInv
    <3>2. \/ sum' = sum /\ sink' = sink
          \/ /\ sink # "ended" /\ sink' # "ended"
             /\ \E t \in 1 .. length : sum[t] = 0 /\ sum' = [sum EXCEPT ![t] = 1]
          \/ /\ sum' = sum /\ sink' = "ended"
             /\ \A t \in 1 .. length : sum[t] = 1
      BY <3>1, FarmStep DEF farmVars
    <3>. QED
      BY <2>0, <2>1, <3>2 DEF Out!Next, Out!vars, Out!Deliver, Out!End
  <2>2. CASE network = "loops"
    <3>1. LoopParts /\ (Loops!Next \/ UNCHANGED loopsVars)
      BY <1>2, <2>2, LoopSteps DEF LoopInv
    <3>2. UNCHANGED loopsVars => printed' = printed /\ Loops!Over' = Loops!Over
      BY DEF loopsVars, Loops!Over
    <3>3. \/ printed' = printed /\ Loops!Over' = Loops!Over
          \/ /\ ~Loops!Over /\ ~Loops!Over'
             /\ \E i \in 1 .. length : printed[i] = 0 /\ printed' = [printed EXCEPT ![i] = 1]
          \/ /\ printed' = printed /\ Loops!Over'
             /\ \A i \in 1 .. length : printed[i] = 1
      BY <3>1, <3>2, LoopStep
    <3>. QED
      BY <2>0, <2>2, <3>3 DEF Out!Next, Out!vars, Out!Deliver, Out!End, Loops!Over
  <2>3. CASE network = "dots"
    <3>1. DotParts /\ (Dots!Next \/ UNCHANGED dotsVars)
      BY <1>2, <2>3, DotSteps DEF DotInv
    <3>2. \/ added' = added /\ Dots!Over' = Dots!Over
          \/ /\ ~Dots!Over /\ ~Dots!Over'
             /\ \E i \in 1 .. length : added[i] = 0 /\ added' = [added EXCEPT ![i] = 1]
          \/ /\ added' = added /\ Dots!Over'
             /\ \A i \in 1 .. length : added[i] = 1
      BY <3>1, DotStep
    <3>. QED
      BY <2>0, <2>3, <3>2 DEF Out!Next, Out!vars, Out!Deliver, Out!End, Dots!Over
  <2>4. CASE network \notin {"farm", "loops", "dots"}
    BY <2>0, <2>4 DEF Out!vars, NothingYet
  <2>. QED
    BY <2>1, <2>2, <2>3, <2>4
<1>3. ASSUME LoopInv, FarmInv, DotInv, [Next]_vars
      PROVE  LoopInv' /\ FarmInv' /\ DotInv'
  BY <1>3, LoopNext, FarmNext, DotNext
<1>4. Init => LoopInv /\ FarmInv /\ DotInv
  BY LoopInitial, FarmInitial, DotInitial
<1>. QED
  BY <1>1, <1>2, <1>3, <1>4, PTL DEF Spec, NetworksAreStreams, Out!Spec
-----------------------------------------------------------------------------

-----------------------------------------------------------------------------
(* ffc_farm.  The blocks the reader makes of an argument; Many of them are   *)
(* put together again by the writer.                                         *)
BlockList(f) ==
  IF options.comp THEN Comp!Blocks(f, arguments[f].size, options.threshold)
  ELSE IF arguments[f].content = "small" THEN <<Comp!Block(f, 1, 1, 1)>>
  ELSE Comp!Parts(f, dirV[f])
Ids(f) == 1 .. Len(BlockList(f))
Many(f) == Len(BlockList(f)) # 1

IsBlock(t) ==
  /\ t.file \in Comp!File /\ ~Comp!Discarded(t.file)
  /\ t.blockid \in Ids(t.file) /\ t = BlockList(t.file)[t.blockid]

(* Blocks that have not come to the writer are in the reader's list, in a    *)
(* queue or at a worker.                                                     *)
Unsent == IF listed = <<>> THEN {} ELSE {listed[k] : k \in blk + 1 .. Len(listed)}
Away == Unsent \cup tasks \cup {work[w] : w \in Comp!Node}
Waiting(f) == {k \in Ids(f) : BlockList(f)[k] \in Away}
AtWriter(f) == {k \in Ids(f) : BlockList(f)[k] \in written}

CompTypes ==
  /\ options \in Comp!Options
  /\ arguments = [f \in Comp!File |-> arguments[f]]
  /\ \A f \in Comp!File : arguments[f] \in Comp!Inputs(f)
  /\ argi \in 1 .. Files + 1 /\ blk \in Nat
  /\ work = [w \in Comp!Node |-> work[w]]
  /\ blocksOf \in [Comp!File -> Nat] /\ dirV \in [Comp!File -> Nat]
  /\ part \in [Comp!File -> SUBSET Nat] /\ cut \in [Comp!File -> SUBSET Nat]
  /\ packed \in [Comp!File -> SUBSET Nat]
  /\ target \in [Comp!File -> {"none", "ok", "bad"}] /\ tmpdir \subseteq Comp!File
  /\ IF listed = <<>> THEN blk = 0
     ELSE /\ argi \in Comp!File /\ ~Comp!Discarded(argi)
          /\ listed = BlockList(argi) /\ blk < Len(listed)
  /\ \A t \in tasks \cup written : IsBlock(t)
  /\ \A w \in Comp!Node : work[w] = Comp!NoTask \/ IsBlock(work[w])

(* A block is in one place.                                                  *)
BlockOnce ==
  /\ Unsent \cap tasks = {} /\ Away \cap written = {}
  /\ \A w \in Comp!Node : work[w] # Comp!NoTask =>
       /\ work[w] \notin Unsent \cup tasks
       /\ \A v \in Comp!Node : v # w => work[v] # work[w]

(* The argument has not been opened; or all of its parts have been found.    *)
Fresh(f) == argi <= f /\ ~(argi = f /\ listed # <<>>)
Opened(f) ==
  options.comp \/ arguments[f].content = "small" \/ dirV[f] = arguments[f].size

Untouched(f) ==
  /\ Waiting(f) = {} /\ AtWriter(f) = {} /\ blocksOf[f] = 0
  /\ part[f] = {} /\ cut[f] = {} /\ packed[f] = {}
  /\ target[f] = "none" /\ f \in original /\ f \notin tmpdir

(* One block: the worker's result is the file's.                             *)
Single(f) ==
  /\ AtWriter(f) = {} /\ blocksOf[f] = 0
  /\ part[f] = {} /\ cut[f] = {} /\ packed[f] = {} /\ f \notin tmpdir
  /\ Waiting(f) # {} => target[f] = "none" /\ f \in original
  /\ f \notin original => target[f] = "ok"
  /\ Waiting(f) = {} /\ Comp!Untroubled(f) => target[f] = "ok"

(* Many: the writer counts them up to the last one.                          *)
InProgress(f) ==
  /\ target[f] = "none" /\ f \in original
  /\ part[f] \subseteq Ids(f) /\ part[f] \cap Waiting(f) = {} /\ AtWriter(f) \subseteq part[f]
  /\ blocksOf[f] = Cardinality(part[f] \ AtWriter(f)) /\ part[f] \ AtWriter(f) # Ids(f)
  /\ options.comp => f \notin tmpdir /\ packed[f] = {}
  /\ Comp!Untroubled(f) =>
       /\ part[f] \cup Waiting(f) = Ids(f) /\ cut[f] = {}
       /\ ~options.comp => packed[f] = Waiting(f)

Joined(f) ==
  /\ Waiting(f) = {} /\ AtWriter(f) = {} /\ blocksOf[f] = 0
  /\ f \notin original => target[f] = "ok"
  /\ options.comp => f \notin tmpdir /\ packed[f] = {}
  /\ Comp!Untroubled(f) =>
       /\ target[f] = "ok" /\ f \notin tmpdir
       /\ part[f] = {} /\ cut[f] = {} /\ packed[f] = {}

(* The life of a file that is compressed, whatever fails, and of one that is *)
(* decompressed without a failing call.                                      *)
FileInv(f) ==
  /\ Fresh(f) => Comp!Untroubled(f)
  /\ options.comp \/ Comp!Untroubled(f) =>
       \/ Untouched(f) /\ (Fresh(f) \/ Comp!Discarded(f) \/ ~Comp!Untroubled(f))
       \/ /\ ~Fresh(f) /\ ~Comp!Discarded(f) /\ Opened(f)
          /\ IF Many(f) THEN InProgress(f) \/ Joined(f) ELSE Single(f)

CompEnd ==
  writer = "end" =>
    /\ argi = Files + 1 /\ tasks = {} /\ written = {}
    /\ \A w \in Comp!Node : work[w] = Comp!NoTask

(* A failing call that success knows of has been noted by one of the nodes.  *)
Noted ==
  writer # "killed" /\ (\E f \in Comp!File : <<f, "seen">> \in faults) => failed # {}

CompParts == CompTypes /\ BlockOnce /\ (\A f \in Comp!File : FileInv(f)) /\ CompEnd /\ Noted
CompInv == network = "compressor" => CompParts

(* What an argument can be.                                                  *)
LEMMA InputFacts ==
  ASSUME CompTypes, NEW f \in Comp!File
  PROVE  /\ arguments[f].size \in Nat /\ arguments[f].content \in {"other", "small", "tar"}
         /\ arguments[f].content = "small" => arguments[f].size = 1
         /\ arguments[f].content = "tar" => arguments[f].size # 1
<1>1. arguments[f] \in Comp!Inputs(f)
  BY DEF CompTypes
<1>0. Sizes[f] \subseteq Nat
  BY CompressorAssumption DEF Comp!File
<1>2. CASE arguments[f] \in [size : Sizes[f], content : {"other"}]
  BY <1>0, <1>2
<1>3. CASE \E s \in Sizes[f] : arguments[f] = [size |-> s, content |-> IF s = 1 THEN "small" ELSE "tar"]
  BY <1>0, <1>3
<1>. QED
  BY <1>1, <1>2, <1>3 DEF Comp!Inputs

(* What the reader makes of an argument.                                     *)
LEMMA ListFacts ==
  ASSUME CompTypes, NEW f \in Comp!File
  PROVE  /\ Len(BlockList(f)) \in Nat
         /\ \A k \in Ids(f) : /\ BlockList(f)[k].file = f /\ BlockList(f)[k].blockid = k
                              /\ BlockList(f)[k].nblocks = Len(BlockList(f))
                              /\ BlockList(f)[k] # Comp!NoTask
         /\ ~Comp!Discarded(f) /\ Opened(f) =>
              /\ Len(BlockList(f)) # 0
              /\ Many(f) <=> IF options.comp THEN arguments[f].size > options.threshold
                                             ELSE arguments[f].content = "tar"
         /\ ~options.comp /\ arguments[f].content = "tar" => Len(BlockList(f)) = dirV[f]
         /\ ~Comp!Discarded(f) => (options.comp <=> arguments[f].content = "other")
<1>. DEFINE s == arguments[f].size
            c == arguments[f].content
            n == Len(BlockList(f))
<1>1. options.threshold \in {1, 2} /\ options.comp \in BOOLEAN
  BY DEF CompTypes, Comp!Options, Comp!BIGFILE_LOW_THRESHOLD
<1>2. /\ s \in Nat /\ c \in {"other", "small", "tar"}
      /\ c = "small" => s = 1
      /\ c = "tar" => s # 1
  BY InputFacts
<1>3. f # 0 /\ dirV[f] \in Nat
  BY DEF Comp!File, CompTypes
<1>4. ~Comp!Discarded(f) => s # 0 /\ (options.comp <=> c = "other")
  BY <1>1, <1>2 DEF Comp!Discarded, Comp!suffix, Comp!comp
<1>. HIDE DEF s, c
<1>5. CASE options.comp
  <2>. DEFINE t == options.threshold
              m == s \div t + (IF s % t > 0 THEN 1 ELSE 0)
  <2>1. CASE s <= t
    <3>1. BlockList(f) = <<Comp!Block(f, 1, 1, s)>>
      BY <1>5, <2>1 DEF BlockList, Comp!Blocks, s
    <3>2. n = 1 /\ Ids(f) = {1} /\ BlockList(f)[1] = Comp!Block(f, 1, 1, s)
      BY <3>1 DEF Ids
    <3>. QED
      BY <1>1, <1>2, <1>3, <1>4, <1>5, <2>1, <3>2 DEF Comp!Block, Comp!NoTask, Many, s, c
  <2>2. CASE s > t
    <3>1. m \in Nat /\ m >= 2
      BY <1>1, <1>2, <2>2
    <3>. HIDE DEF m
    <3>2. \E size : BlockList(f) = [k \in 1 .. m |-> Comp!Block(f, k, m, size[k])]
      <4>. DEFINE full == s \div t
                  size == [k \in 1 .. m |-> IF k <= full THEN t ELSE s % t]
      <4>1. BlockList(f) = [k \in 1 .. m |-> Comp!Block(f, k, m, IF k <= full THEN t ELSE s % t)]
        BY <1>1, <1>2, <1>5, <2>2 DEF BlockList, Comp!Blocks, s, m
      <4>2. BlockList(f) = [k \in 1 .. m |-> Comp!Block(f, k, m, size[k])]
        BY <4>1
      <4>. QED
        BY <4>2
    <3>3. PICK size : BlockList(f) = [k \in 1 .. m |-> Comp!Block(f, k, m, size[k])]
      BY <3>2
    <3>4. n = m /\ Ids(f) = 1 .. m /\ \A k \in Ids(f) : BlockList(f)[k] = Comp!Block(f, k, m, size[k])
      BY <3>1, <3>3 DEF Ids
    <3>. QED
      BY <1>1, <1>2, <1>3, <1>4, <1>5, <2>2, <3>1, <3>4 DEF Comp!Block, Comp!NoTask, Many, s, c
  <2>. QED
    BY <1>1, <1>2, <2>1, <2>2
<1>6. CASE ~options.comp /\ c = "small"
  <2>1. BlockList(f) = <<Comp!Block(f, 1, 1, 1)>>
    BY <1>6 DEF BlockList, c
  <2>2. n = 1 /\ Ids(f) = {1} /\ BlockList(f)[1] = Comp!Block(f, 1, 1, 1)
    BY <2>1 DEF Ids
  <2>. QED
    BY <1>3, <1>4, <1>6, <2>2 DEF Comp!Block, Comp!NoTask, Many, c
<1>7. CASE ~options.comp /\ c # "small"
  <2>. PICK d \in Nat : d = dirV[f]
    BY <1>3
  <2>1. BlockList(f) = [k \in 1 .. d |-> Comp!Block(f, k, d, 1)]
    BY <1>7 DEF BlockList, Comp!Parts, c
  <2>2. n = d /\ Ids(f) = 1 .. d /\ \A k \in Ids(f) : BlockList(f)[k] = Comp!Block(f, k, d, 1)
    BY <1>3, <2>1 DEF Ids
  <2>3. \A k \in Ids(f) : /\ BlockList(f)[k].file = f /\ BlockList(f)[k].blockid = k
                          /\ BlockList(f)[k].nblocks = n /\ BlockList(f)[k] # Comp!NoTask
    <3>1. \A k : Comp!Block(f, k, d, 1).file = f /\ Comp!Block(f, k, d, 1).blockid = k
                 /\ Comp!Block(f, k, d, 1).nblocks = d /\ Comp!Block(f, k, d, 1) # Comp!NoTask
      BY <1>3 DEF Comp!Block, Comp!NoTask
    <3>. QED
      BY <2>2, <3>1
  <2>4. ~Comp!Discarded(f) /\ Opened(f) => n # 0 /\ c = "tar" /\ Many(f)
    BY <1>2, <1>4, <1>7, <2>2 DEF Many, Opened, s, c
  <2>. QED
    BY <1>2, <1>3, <1>4, <1>7, <2>2, <2>3, <2>4 DEF c
<1>. QED
  BY <1>5, <1>6, <1>7

(* A block is known by its file and its number.                              *)
LEMMA BlockIs ==
  ASSUME CompTypes
  PROVE  /\ \A t : IsBlock(t) =>
              /\ t.file \in Comp!File /\ t.blockid \in Ids(t.file) /\ t # Comp!NoTask
              /\ t = BlockList(t.file)[t.blockid]
              /\ t.nblocks = Len(BlockList(t.file)) /\ ~Comp!Discarded(t.file)
              /\ \A g \in Comp!File : \A k \in Ids(g) :
                   t = BlockList(g)[k] => g = t.file /\ k = t.blockid
         /\ \A f \in Comp!File : \A k \in Ids(f) : ~Comp!Discarded(f) => IsBlock(BlockList(f)[k])
BY ListFacts DEF IsBlock

(* The command line does not change, nor what the reader has found of a file.*)
LEMMA SameList ==
  ASSUME options' = options, arguments' = arguments
  PROVE  /\ \A f : Comp!Discarded(f)' = Comp!Discarded(f)
         /\ \A f : dirV'[f] = dirV[f] =>
              /\ BlockList(f)' = BlockList(f) /\ Ids(f)' = Ids(f) /\ Many(f)' = Many(f)
              /\ Opened(f)' = Opened(f)
         /\ \A t : dirV'[t.file] = dirV[t.file] => IsBlock(t)' = IsBlock(t)
<1>1. \A f : Comp!Discarded(f)' = Comp!Discarded(f)
  BY DEF Comp!Discarded, Comp!comp
<1>2. \A f : dirV'[f] = dirV[f] => BlockList(f)' = BlockList(f) /\ Opened(f)' = Opened(f)
  BY DEF BlockList, Opened
<1>3. \A f : dirV'[f] = dirV[f] => Ids(f)' = Ids(f) /\ Many(f)' = Many(f)
  BY <1>2 DEF Ids, Many
<1>4. \A t : dirV'[t.file] = dirV[t.file] => IsBlock(t)' = IsBlock(t)
  BY <1>1, <1>2, <1>3 DEF IsBlock
<1>. QED
  BY <1>1, <1>2, <1>3, <1>4

(* A failing call is one file's.                                             *)
LEMMA FaultOfOne ==
  ASSUME NEW f, NEW how \in {"seen", "unseen"}, Comp!Fails(f, how)
  PROVE  ~Comp!Untroubled(f)' /\ \A g : g # f => (Comp!Untroubled(g)' <=> Comp!Untroubled(g))
<1>1. faults' = faults \cup {<<f, how>>}
  BY DEF Comp!Fails
<1>2. <<f, how>> \in faults'
  BY <1>1
<1>3. \A g, h : g # f => (<<g, h>> \in faults' <=> <<g, h>> \in faults)
  BY <1>1
<1>. QED
  BY <1>2, <1>3 DEF Comp!Untroubled

(* Nothing has failed.                                                       *)
LEMMA NoFault ==
  ASSUME faults' = faults
  PROVE  \A g : Comp!Untroubled(g)' <=> Comp!Untroubled(g)
BY DEF Comp!Untroubled

(* A step that leaves a file and its blocks alone.                           *)
SameHere(g) ==
  /\ dirV'[g] = dirV[g] /\ blocksOf'[g] = blocksOf[g]
  /\ part'[g] = part[g] /\ cut'[g] = cut[g] /\ packed'[g] = packed[g] /\ target'[g] = target[g]
  /\ g \in original' <=> g \in original
  /\ g \in tmpdir' <=> g \in tmpdir
  /\ Comp!Untroubled(g)' <=> Comp!Untroubled(g)

(* Such a file is as it was.                                                  *)
LEMMA SameFile ==
  ASSUME NEW g \in Comp!File, FileInv(g), options' = options, arguments' = arguments, SameHere(g),
         \A k \in Ids(g) : /\ BlockList(g)[k] \in Away' <=> BlockList(g)[k] \in Away
                           /\ BlockList(g)[k] \in written' <=> BlockList(g)[k] \in written,
         Fresh(g)' <=> Fresh(g)
  PROVE  FileInv(g)'
<1>1. /\ BlockList(g)' = BlockList(g) /\ Ids(g)' = Ids(g) /\ Many(g)' = Many(g)
      /\ Comp!Discarded(g)' = Comp!Discarded(g) /\ Opened(g)' = Opened(g)
  BY SameList DEF SameHere
<1>2. Waiting(g)' = Waiting(g) /\ AtWriter(g)' = AtWriter(g)
  BY <1>1 DEF Waiting, AtWriter
<1>3. Untouched(g) => Untouched(g)'
  BY <1>2 DEF Untouched, SameHere
<1>4. Single(g) => Single(g)'
  BY <1>2 DEF Single, SameHere
<1>5. InProgress(g) => InProgress(g)'
  BY <1>1, <1>2 DEF InProgress, SameHere
<1>6. Joined(g) => Joined(g)'
  BY <1>2 DEF Joined, SameHere
<1>7. Comp!Untroubled(g)' <=> Comp!Untroubled(g)
  BY DEF SameHere
<1>. QED
  BY <1>1, <1>3, <1>4, <1>5, <1>6, <1>7 DEF FileInv

(* The blocks of a list, also after a step.                                  *)
ListOk(f) ==
  /\ Len(BlockList(f)) \in Nat
  /\ \A k \in Ids(f) : BlockList(f)[k].file = f /\ BlockList(f)[k] # Comp!NoTask

(* They are a list's blocks after a step that keeps the types.               *)
LEMMA NextList == CompTypes' => (\A f \in Comp!File : ListOk(f))'
<1>1. CompTypes => \A f \in Comp!File : ListOk(f)
  BY ListFacts DEF ListOk
<1>. QED
  BY <1>1, PTL

(* The reader goes on to the next argument, or has listed blocks of f, which *)
(* has not been opened before.                                               *)
Reads(f) ==
  /\ f = argi /\ f \in Comp!File /\ listed = <<>>
  /\ UNCHANGED <<options, arguments, tasks, work, written, blocksOf, part, cut, target, original>>
  /\ dirV' \in [Comp!File -> Nat] /\ packed' \in [Comp!File -> SUBSET Nat]
  /\ tmpdir' \subseteq Comp!File
  /\ \A g \in Comp!File : g # f => SameHere(g)
  /\ blk' = 0
  /\ \/ listed' = <<>> /\ argi' = argi + 1
     \/ /\ listed' # <<>> /\ argi' = argi /\ ~Comp!Discarded(f)
        /\ listed' = BlockList(f)' /\ 0 < Len(listed')

(* What the reader did not know before it read.                              *)
ReadFacts(f) ==
  /\ CompTypes' /\ BlockOnce' /\ (\A g \in Comp!File : g # f => FileInv(g)')
  /\ Untouched(f) /\ Comp!Untroubled(f) /\ ~Fresh(f)'
  /\ AtWriter(f)' = {} /\ Waiting(f)' = IF listed' = <<>> THEN {} ELSE Ids(f)'

(* The facts above hold of the reader's steps.                               *)
LEMMA ReadStep ==
  ASSUME CompParts, NEW f, Reads(f)
  PROVE  ReadFacts(f)
<1>0. CompTypes /\ BlockOnce
  BY DEF CompParts
<1>1. /\ f = argi /\ f \in Comp!File /\ listed = <<>> /\ f \in Nat /\ argi \in Nat
      /\ UNCHANGED <<options, arguments, tasks, work, written>>
  BY DEF Reads, Comp!File
<1>2. Untouched(f) /\ Comp!Untroubled(f)
  <2>1. Fresh(f) /\ FileInv(f)
    BY <1>1 DEF Fresh, CompParts
  <2>. QED
    BY <2>1 DEF FileInv
<1>3. Unsent = {} /\ \A x \in tasks \cup written \cup {work[w] : w \in Comp!Node} :
                       x = Comp!NoTask \/ (IsBlock(x) /\ x.file # f)
  <2>1. Unsent = {}
    BY <1>1 DEF Unsent
  <2>2. \A x \in tasks \cup written \cup {work[w] : w \in Comp!Node} : x = Comp!NoTask \/ IsBlock(x)
    BY <1>0 DEF CompTypes
  <2>3. ASSUME NEW x \in tasks \cup written \cup {work[w] : w \in Comp!Node}, IsBlock(x)
        PROVE  x.file # f
    <3>1. x = BlockList(x.file)[x.blockid] /\ x.blockid \in Ids(x.file)
      BY <2>3 DEF IsBlock
    <3>2. x \in Away \/ x \in written
      BY DEF Away
    <3>3. x.file = f => x.blockid \in Waiting(f) \/ x.blockid \in AtWriter(f)
      BY <3>1, <3>2 DEF Waiting, AtWriter
    <3>. QED
      BY <1>2, <3>3 DEF Untouched
  <2>. QED
    BY <2>1, <2>2, <2>3
<1>4. \A g \in Comp!File : g # f => dirV'[g] = dirV[g]
  BY DEF Reads, SameHere
<1>5. \A x : IsBlock(x) /\ x.file # f => IsBlock(x)'
  BY <1>1, <1>4, SameList DEF IsBlock
<1>6. CompTypes'
  <2>1. \A x \in tasks' \cup written' : IsBlock(x)'
    BY <1>0, <1>1, <1>3, <1>5, BlockIs DEF CompTypes
  <2>2. \A w \in Comp!Node : work'[w] = Comp!NoTask \/ (IsBlock(work'[w]) /\ work'[w].file # f)
    BY <1>1, <1>3
  <2>3. /\ argi' \in 1 .. Files + 1 /\ blk' \in Nat
        /\ IF listed' = <<>> THEN blk' = 0
           ELSE /\ argi' \in Comp!File /\ ~Comp!Discarded(argi)'
                /\ listed' = BlockList(argi)' /\ blk' < Len(listed')
    <3>1. f \in 1 .. Files /\ Files \in Nat
      BY <1>1, CompressorAssumption DEF Comp!File
    <3>2. CASE listed' = <<>> /\ argi' = argi + 1
      BY <1>1, <3>1, <3>2 DEF Reads
    <3>3. CASE listed' # <<>> /\ argi' = argi
      <4>1. Comp!Discarded(f)' = Comp!Discarded(f)
        BY <1>1, SameList
      <4>2. argi' = f /\ f = argi
        BY <1>1, <3>3
      <4>3. ~Comp!Discarded(argi)' /\ listed' = BlockList(argi)' /\ 0 < Len(listed') /\ blk' = 0
        BY <3>3, <4>1, <4>2 DEF Reads
      <4>. QED
        BY <1>1, <3>1, <3>3, <4>2, <4>3
    <3>. QED
      BY <3>2, <3>3 DEF Reads
  <2>4. /\ options' \in Comp!Options
        /\ arguments' = [g \in Comp!File |-> arguments'[g]]
        /\ \A g \in Comp!File : arguments'[g] \in Comp!Inputs(g)
        /\ work' = [w \in Comp!Node |-> work'[w]]
    BY <1>0, <1>1 DEF CompTypes
  <2>5. /\ blocksOf' \in [Comp!File -> Nat] /\ dirV' \in [Comp!File -> Nat]
        /\ part' \in [Comp!File -> SUBSET Nat] /\ cut' \in [Comp!File -> SUBSET Nat]
        /\ packed' \in [Comp!File -> SUBSET Nat]
        /\ target' \in [Comp!File -> {"none", "ok", "bad"}] /\ tmpdir' \subseteq Comp!File
    BY <1>0 DEF CompTypes, Reads
  <2>. QED
    BY <1>5, <2>1, <2>2, <2>3, <2>4, <2>5 DEF CompTypes
<1>7. \A g \in Comp!File : ListOk(g)'
  BY <1>6, NextList
<1>8. \A g \in Comp!File : ListOk(g)
  BY <1>0, ListFacts DEF ListOk
<1>9. /\ listed' = <<>> => Unsent' = {}
      /\ listed' # <<>> => Unsent' = {BlockList(f)'[k] : k \in Ids(f)'}
      /\ \A x \in Unsent' : x.file = f /\ x # Comp!NoTask
  <2>1. listed' = <<>> => Unsent' = {}
    BY DEF Unsent
  <2>2. listed' # <<>> => Unsent' = {BlockList(f)'[k] : k \in Ids(f)'}
    <3>1. SUFFICES ASSUME listed' # <<>> PROVE Unsent' = {BlockList(f)'[k] : k \in Ids(f)'}
      OBVIOUS
    <3>2. listed' = BlockList(f)' /\ blk' = 0
      BY <3>1 DEF Reads
    <3>3. Unsent' = {listed'[k] : k \in blk' + 1 .. Len(listed')}
      BY <3>1 DEF Unsent
    <3>4. Ids(f)' = 1 .. Len(listed') /\ 0 + 1 = 1
      BY <3>2 DEF Ids
    <3>. QED
      BY <3>2, <3>3, <3>4
  <2>3. \A k \in Ids(f)' : BlockList(f)'[k].file = f /\ BlockList(f)'[k] # Comp!NoTask
    BY <1>1, <1>7 DEF ListOk
  <2>. QED
    BY <2>1, <2>2, <2>3
<1>10. Away' = Unsent' \cup Away
  BY <1>1, <1>3 DEF Away
<1>11. BlockOnce'
  <2>1. \A x \in tasks \cup written \cup {work[w] : w \in Comp!Node} : x \notin Unsent'
    BY <1>3, <1>9
  <2>2. Unsent' \cap tasks' = {}
    BY <1>1, <2>1
  <2>3. Away' \cap written' = {}
    BY <1>0, <1>1, <1>10, <2>1 DEF BlockOnce
  <2>4. \A w \in Comp!Node : work[w] # Comp!NoTask => work[w] \notin Unsent' \cup tasks
    BY <1>0, <2>1 DEF BlockOnce
  <2>. QED
    BY <1>0, <1>1, <2>2, <2>3, <2>4 DEF BlockOnce
<1>12. ASSUME NEW g \in Comp!File, g # f
       PROVE  FileInv(g)'
  <2>1. FileInv(g) /\ g \in Nat /\ SameHere(g)
    BY <1>12 DEF CompParts, Reads, Comp!File
  <2>2. Fresh(g)' <=> Fresh(g)
    <3>1. CASE listed' = <<>> /\ argi' = argi + 1
      BY <1>1, <1>12, <2>1, <3>1 DEF Fresh
    <3>2. CASE listed' # <<>> /\ argi' = argi
      BY <1>1, <1>12, <2>1, <3>2 DEF Fresh
    <3>. QED
      BY <3>1, <3>2 DEF Reads
  <2>3. \A k \in Ids(g) : BlockList(g)[k] \in Away' <=> BlockList(g)[k] \in Away
    BY <1>8, <1>9, <1>10, <1>12 DEF ListOk
  <2>. QED
    BY <1>1, <2>1, <2>2, <2>3, SameFile
<1>13. ~Fresh(f)'
  <2>1. CASE listed' = <<>> /\ argi' = argi + 1
    BY <1>1, <2>1 DEF Fresh
  <2>2. CASE listed' # <<>> /\ argi' = argi
    BY <1>1, <2>2 DEF Fresh
  <2>. QED
    BY <2>1, <2>2 DEF Reads
<1>14. \A k \in Ids(f)' : BlockList(f)'[k] \notin Away /\ BlockList(f)'[k] \notin written
  <2>1. \A x \in Away \cup written : x = Comp!NoTask \/ x.file # f
    BY <1>3 DEF Away
  <2>2. \A k \in Ids(f)' : BlockList(f)'[k] # Comp!NoTask /\ BlockList(f)'[k].file = f
    BY <1>1, <1>7 DEF ListOk
  <2>. QED
    BY <2>1, <2>2
<1>15. AtWriter(f)' = {}
  BY <1>1, <1>14 DEF AtWriter
<1>16. Waiting(f)' = IF listed' = <<>> THEN {} ELSE Ids(f)'
  <2>1. CASE listed' = <<>>
    <3>1. Away' = Away
      BY <1>9, <1>10, <2>1
    <3>. QED
      BY <1>14, <2>1, <3>1 DEF Waiting
  <2>2. CASE listed' # <<>>
    <3>1. \A k \in Ids(f)' : BlockList(f)'[k] \in Away'
      BY <1>9, <1>10, <2>2
    <3>. QED
      BY <2>2, <3>1 DEF Waiting
  <2>. QED
    BY <2>1, <2>2
<1>. QED
  BY <1>2, <1>6, <1>11, <1>12, <1>13, <1>15, <1>16 DEF ReadFacts

(* The reader: an argument is passed over.                                   *)
LEMMA SkipStep ==
  ASSUME CompParts, Comp!Skip \/ Comp!ReaderFails
  PROVE  CompTypes' /\ BlockOnce' /\ \A f \in Comp!File : FileInv(f)'
<1>. PICK f : f = argi
  OBVIOUS
<1>0. CompTypes /\ f \in Comp!File
  BY CompressorAssumption DEF CompParts, CompTypes, Comp!Skip, Comp!ReaderFails, Comp!Reading, Comp!File
<1>1. /\ listed = <<>> /\ listed' = <<>> /\ argi' = argi + 1 /\ blk' = 0
      /\ UNCHANGED <<options, arguments, tasks, work, written, blocksOf, dirV, part, cut, packed,
                     target, original>>
      /\ \/ Comp!Discarded(f) /\ UNCHANGED <<faults, tmpdir>>
         \/ /\ ~Comp!Discarded(f) /\ Comp!Fails(f, "unseen") /\ UNCHANGED tmpdir
         \/ /\ ~Comp!Discarded(f) /\ Comp!Fails(f, "seen")
            /\ \/ UNCHANGED tmpdir
               \/ arguments[f].content = "tar" /\ tmpdir' = tmpdir \cup {f}
  BY DEF Comp!Skip, Comp!ReaderFails, Comp!NextArgument, Comp!disk, Comp!Argument
<1>2. \A g \in Comp!File : g # f => (Comp!Untroubled(g)' <=> Comp!Untroubled(g))
  BY <1>1, FaultOfOne, NoFault
<1>3. Comp!Discarded(f) \/ ~Comp!Untroubled(f)'
  BY <1>1, FaultOfOne
<1>4. tmpdir' \subseteq Comp!File /\ \A g \in Comp!File : g # f => (g \in tmpdir' <=> g \in tmpdir)
  BY <1>0, <1>1 DEF CompTypes
<1>5. Reads(f)
  <2>1. \A g \in Comp!File : g # f => SameHere(g)
    BY <1>1, <1>2, <1>4 DEF SameHere
  <2>2. /\ dirV' \in [Comp!File -> Nat] /\ packed' \in [Comp!File -> SUBSET Nat]
    BY <1>0, <1>1 DEF CompTypes
  <2>. QED
    BY <1>0, <1>1, <1>4, <2>1, <2>2 DEF Reads
<1>6. ReadFacts(f)
  BY <1>5, ReadStep
<1>7. ASSUME options.comp \/ Comp!Untroubled(f)'
      PROVE  Untouched(f)' /\ (Comp!Discarded(f)' \/ ~Comp!Untroubled(f)')
  <2>1. tmpdir' = tmpdir
    <3>1. ~Comp!Discarded(f) => options.comp
      BY <1>1, <1>7, FaultOfOne
    <3>2. ~Comp!Discarded(f) => arguments[f].content # "tar"
      BY <1>0, <3>1, ListFacts
    <3>. QED
      BY <1>1, <3>2
  <2>2. Waiting(f)' = {} /\ AtWriter(f)' = {} /\ Untouched(f)
    BY <1>1, <1>6 DEF ReadFacts
  <2>3. Untouched(f)'
    BY <1>1, <2>1, <2>2 DEF Untouched
  <2>. QED
    BY <1>1, <1>3, <2>3, SameList
<1>8. FileInv(f)'
  <2>1. ~Fresh(f)' /\ options' = options
    BY <1>1, <1>6 DEF ReadFacts
  <2>. QED
    BY <1>7, <2>1 DEF FileInv
<1>. QED
  BY <1>6, <1>8 DEF ReadFacts

(* The reader: the blocks of an argument are listed.                         *)
LEMMA OpenStep ==
  ASSUME CompParts, Comp!OpenArgument
  PROVE  CompTypes' /\ BlockOnce' /\ \A f \in Comp!File : FileInv(f)'
<1>. PICK f : f = argi
  OBVIOUS
<1>0. CompTypes /\ f \in Comp!File
  BY CompressorAssumption DEF CompParts, CompTypes, Comp!OpenArgument, Comp!Reading, Comp!File
<1>1. /\ listed = <<>> /\ ~Comp!Discarded(f) /\ argi' = argi /\ blk' = blk
      /\ UNCHANGED <<options, arguments, faults, tasks, work, written, blocksOf, part, cut, target,
                     original>>
  BY DEF Comp!OpenArgument, Comp!SendAll
<1>s. PICK n : n = arguments[f].size
  OBVIOUS
<1>2. /\ n \in Nat /\ blk = 0 /\ arguments[f].content \in {"other", "small", "tar"}
      /\ options.comp <=> arguments[f].content = "other"
  BY <1>0, <1>1, <1>s, InputFacts, ListFacts DEF CompTypes
<1>3. CASE arguments[f].content # "tar"
  <2>1. /\ listed' = BlockList(f) /\ UNCHANGED <<packed, tmpdir, dirV>> /\ Opened(f)
    BY <1>2, <1>3 DEF Comp!OpenArgument, Comp!SendAll, Comp!comp, Comp!Argument, BlockList, Opened
  <2>2. /\ BlockList(f)' = BlockList(f) /\ Ids(f)' = Ids(f) /\ Many(f)' = Many(f)
        /\ Opened(f)' /\ ~Comp!Discarded(f)'
    BY <1>1, <2>1, SameList
  <2>3. Len(BlockList(f)) # 0 /\ Len(BlockList(f)) \in Nat /\ (Many(f) => options.comp)
    BY <1>0, <1>1, <1>2, <1>3, <2>1, ListFacts
  <2>4. \A g \in Comp!File : SameHere(g)
    BY <1>1, <2>1, NoFault DEF SameHere
  <2>5. listed' # <<>> /\ 0 < Len(listed') /\ listed' = BlockList(f)'
    BY <2>1, <2>2, <2>3
  <2>6. Reads(f)
    BY <1>0, <1>1, <1>2, <2>1, <2>4, <2>5 DEF Reads, CompTypes
  <2>7. ReadFacts(f)
    BY <2>6, ReadStep
  <2>8. /\ Waiting(f)' = Ids(f) /\ AtWriter(f)' = {} /\ Ids(f) # {}
        /\ blocksOf'[f] = 0 /\ part'[f] = {} /\ cut'[f] = {} /\ packed'[f] = {}
        /\ target'[f] = "none" /\ f \in original' /\ f \notin tmpdir' /\ options' = options
    <3>1. 1 \in Ids(f)
      BY <2>3 DEF Ids
    <3>. QED
      BY <1>1, <2>1, <2>2, <2>5, <2>7, <3>1 DEF ReadFacts, Untouched
  <2>9. IF Many(f) THEN InProgress(f)' ELSE Single(f)'
    <3>1. CASE Many(f)
      <4>1. part'[f] \ AtWriter(f)' = {} /\ part'[f] \cup Waiting(f)' = Ids(f)
        BY <2>8
      <4>2. options'.comp /\ Ids(f)' = Ids(f) /\ Cardinality({}) = 0
        BY <2>2, <2>3, <2>8, <3>1, FS_EmptySet
      <4>3. InProgress(f)'
        BY <2>8, <4>1, <4>2 DEF InProgress
      <4>. QED
        BY <3>1, <4>3
    <3>2. CASE ~Many(f)
      BY <2>8, <3>2 DEF Single
    <3>. QED
      BY <3>1, <3>2
  <2>10. FileInv(f)'
    <3>1. ~Fresh(f)'
      BY <2>7 DEF ReadFacts
    <3>. QED
      BY <2>2, <2>9, <3>1 DEF FileInv
  <2>. QED
    BY <2>7, <2>10 DEF ReadFacts
<1>4. CASE arguments[f].content = "tar"
  <2>1. /\ listed' = Comp!Parts(f, n) /\ ~options.comp /\ n # 0 /\ n # 1
        /\ dirV' = [dirV EXCEPT ![f] = n] /\ packed' = [packed EXCEPT ![f] = 1 .. n]
        /\ tmpdir' = tmpdir \cup {f}
    <3>1. n # 0
      BY <1>1, <1>s DEF Comp!Discarded
    <3>2. n # 1
      BY <1>0, <1>4, <1>s, InputFacts
    <3>. QED
      BY <1>2, <1>4, <1>s, <3>1, <3>2 DEF Comp!OpenArgument, Comp!SendAll, Comp!comp, Comp!Argument
  <2>2. dirV'[f] = n /\ packed'[f] = 1 .. n
    BY <1>0, <2>1 DEF CompTypes
  <2>3. listed' = BlockList(f)' /\ Len(listed') = n /\ Ids(f)' = 1 .. n /\ Many(f)' /\ Opened(f)'
    <3>1. listed' = BlockList(f)' /\ Opened(f)'
      BY <1>1, <1>2, <1>4, <1>s, <2>1, <2>2 DEF BlockList, Opened
    <3>2. Len(listed') = n
      BY <1>2, <2>1 DEF Comp!Parts
    <3>. QED
      BY <2>1, <3>1, <3>2 DEF Ids, Many
  <2>4. \A g \in Comp!File : g # f => SameHere(g)
    <3>1. \A g \in Comp!File : g # f => dirV'[g] = dirV[g] /\ packed'[g] = packed[g]
                                       /\ (g \in tmpdir' <=> g \in tmpdir)
      BY <1>0, <2>1 DEF CompTypes
    <3>. QED
      BY <1>1, <3>1, NoFault DEF SameHere
  <2>5. Reads(f)
    <3>1. dirV' \in [Comp!File -> Nat] /\ packed' \in [Comp!File -> SUBSET Nat]
      <4>1. 1 .. n \subseteq Nat
        BY <1>2
      <4>. QED
        BY <1>0, <1>2, <2>1, <4>1 DEF CompTypes
    <3>2. tmpdir' \subseteq Comp!File
      BY <1>0, <2>1 DEF CompTypes
    <3>3. listed' # <<>> /\ 0 < Len(listed')
      BY <1>2, <2>1, <2>3
    <3>. QED
      BY <1>0, <1>1, <1>2, <2>3, <2>4, <3>1, <3>2, <3>3 DEF Reads
  <2>6. ReadFacts(f)
    BY <2>5, ReadStep
  <2>7. /\ Waiting(f)' = 1 .. n /\ AtWriter(f)' = {} /\ 1 .. n # {}
        /\ blocksOf'[f] = 0 /\ part'[f] = {} /\ cut'[f] = {}
        /\ target'[f] = "none" /\ f \in original' /\ options' = options
    <3>1. 1 \in 1 .. n /\ listed' # <<>>
      BY <1>2, <2>1, <2>3
    <3>. QED
      BY <1>1, <2>3, <2>6, <3>1 DEF ReadFacts, Untouched
  <2>8. InProgress(f)'
    <3>1. part'[f] \ AtWriter(f)' = {} /\ part'[f] \cup Waiting(f)' = Ids(f)'
      BY <2>3, <2>7
    <3>2. Cardinality({}) = 0
      BY FS_EmptySet
    <3>. QED
      BY <2>1, <2>2, <2>3, <2>7, <3>1, <3>2 DEF InProgress
  <2>9. FileInv(f)'
    <3>1. ~Fresh(f)' /\ ~Comp!Discarded(f)'
      BY <1>1, <2>6, SameList DEF ReadFacts
    <3>. QED
      BY <2>3, <2>8, <3>1 DEF FileInv
  <2>. QED
    BY <2>6, <2>9 DEF ReadFacts
<1>. QED
  BY <1>3, <1>4

(* The reader: readdir fails.                                                *)
LEMMA ReaddirStep ==
  ASSUME CompParts, Comp!ReaddirFails
  PROVE  CompTypes' /\ BlockOnce' /\ \A f \in Comp!File : FileInv(f)'
<1>. PICK f : f = argi
  OBVIOUS
<1>0. CompTypes /\ f \in Comp!File
  BY CompressorAssumption DEF CompParts, CompTypes, Comp!ReaddirFails, Comp!Reading, Comp!File
<1>1. /\ listed = <<>> /\ ~Comp!Discarded(f) /\ Comp!Fails(f, "seen") /\ arguments[f].content = "tar"
      /\ packed' = [packed EXCEPT ![f] = 1 .. arguments[f].size] /\ tmpdir' = tmpdir \cup {f}
      /\ UNCHANGED <<options, arguments, tasks, work, written, blocksOf, part, cut, target, original>>
  BY DEF Comp!ReaddirFails, Comp!Argument
<1>2. arguments[f].size \in Nat /\ blk = 0 /\ ~options.comp
  BY <1>0, <1>1, InputFacts, ListFacts DEF CompTypes
<1>3. PICK n \in 0 .. arguments[f].size - 1 :
        /\ IF n = 0 THEN Comp!NextArgument ELSE Comp!SendAll(Comp!Parts(f, n))
        /\ dirV' = [dirV EXCEPT ![f] = n]
  BY DEF Comp!ReaddirFails, Comp!Argument
<1>4. n \in Nat
  BY <1>2
<1>5. ~Comp!Untroubled(f)' /\ \A g : g # f => (Comp!Untroubled(g)' <=> Comp!Untroubled(g))
  BY <1>1, FaultOfOne
<1>6. \A g \in Comp!File : g # f => SameHere(g)
  <2>1. \A g \in Comp!File : g # f => dirV'[g] = dirV[g] /\ packed'[g] = packed[g]
                                     /\ (g \in tmpdir' <=> g \in tmpdir)
    BY <1>0, <1>1, <1>3 DEF CompTypes
  <2>. QED
    BY <1>1, <1>5, <2>1 DEF SameHere
<1>7. /\ dirV' \in [Comp!File -> Nat] /\ packed' \in [Comp!File -> SUBSET Nat]
      /\ tmpdir' \subseteq Comp!File /\ dirV'[f] = n
  <2>1. 1 .. arguments[f].size \subseteq Nat
    BY <1>2
  <2>2. dirV \in [Comp!File -> Nat] /\ packed \in [Comp!File -> SUBSET Nat] /\ tmpdir \subseteq Comp!File
    BY <1>0 DEF CompTypes
  <2>3. packed' \in [Comp!File -> SUBSET Nat]
    BY <1>1, <2>1, <2>2
  <2>. QED
    BY <1>0, <1>1, <1>3, <1>4, <2>2, <2>3
<1>8. /\ blk' = 0
      /\ \/ listed' = <<>> /\ argi' = argi + 1
         \/ /\ listed' # <<>> /\ argi' = argi /\ listed' = BlockList(f)' /\ 0 < Len(listed')
  <2>1. CASE n = 0
    BY <1>3, <2>1 DEF Comp!NextArgument
  <2>2. CASE n # 0
    <3>1. listed' = Comp!Parts(f, n) /\ argi' = argi /\ blk' = blk
      BY <1>3, <2>2 DEF Comp!SendAll
    <3>2. listed' = BlockList(f)'
      BY <1>1, <1>2, <1>7, <3>1 DEF BlockList
    <3>3. Len(listed') = n
      BY <1>4, <3>1 DEF Comp!Parts
    <3>. QED
      BY <1>2, <1>4, <2>2, <3>1, <3>2, <3>3
  <2>. QED
    BY <2>1, <2>2
<1>9. Reads(f)
  BY <1>0, <1>1, <1>6, <1>7, <1>8 DEF Reads
<1>10. ReadFacts(f)
  BY <1>9, ReadStep
<1>11. FileInv(f)'
  <2>1. ~Fresh(f)' /\ ~options'.comp
    BY <1>1, <1>2, <1>10 DEF ReadFacts
  <2>. QED
    BY <1>5, <2>1 DEF FileInv
<1>. QED
  BY <1>10, <1>11 DEF ReadFacts

(* The reader sends the next block.                                          *)
LEMMA SendStep ==
  ASSUME CompParts, Comp!SendBlock
  PROVE  CompTypes' /\ BlockOnce' /\ \A f \in Comp!File : FileInv(f)'
<1>. DEFINE t0 == listed[blk + 1]
            rest == {listed[k] : k \in blk + 2 .. Len(listed)}
<1>0. CompTypes
  BY DEF CompParts
<1>1. /\ listed # <<>> /\ tasks' = tasks \cup {t0}
      /\ UNCHANGED <<options, arguments, faults, work, written, blocksOf, dirV, part, cut, packed,
                     target, original, tmpdir>>
      /\ IF blk + 1 = Len(listed) THEN argi' = argi + 1 /\ blk' = 0 /\ listed' = <<>>
         ELSE blk' = blk + 1 /\ argi' = argi /\ listed' = listed
  BY DEF Comp!SendBlock, Comp!NextArgument, Comp!disk
<1>2. /\ argi \in Comp!File /\ ~Comp!Discarded(argi) /\ listed = BlockList(argi)
      /\ blk \in Nat /\ blk < Len(listed) /\ Len(listed) \in Nat
      /\ \A k \in 1 .. Len(listed) : IsBlock(listed[k]) /\ listed[k].blockid = k
  <2>1. argi \in Comp!File /\ ~Comp!Discarded(argi) /\ listed = BlockList(argi)
        /\ blk \in Nat /\ blk < Len(listed)
    BY <1>0, <1>1 DEF CompTypes
  <2>2. Len(listed) \in Nat /\ \A k \in 1 .. Len(listed) : listed[k].blockid = k
    BY <1>0, <2>1, ListFacts DEF Ids
  <2>3. \A k \in 1 .. Len(listed) : IsBlock(listed[k])
    BY <1>0, <2>1, BlockIs DEF Ids
  <2>. QED
    BY <2>1, <2>2, <2>3
<1>3. IsBlock(t0) /\ t0 \notin rest
  <2>1. blk + 1 \in 1 .. Len(listed) /\ \A k \in blk + 2 .. Len(listed) : k \in 1 .. Len(listed) /\ k # blk + 1
    BY <1>2
  <2>. QED
    BY <1>2, <2>1
<1>4. Unsent = {t0} \cup rest
  <2>1. Unsent = {listed[k] : k \in blk + 1 .. Len(listed)}
    BY <1>1 DEF Unsent
  <2>2. blk + 1 .. Len(listed) = {blk + 1} \cup (blk + 2 .. Len(listed))
    BY <1>2
  <2>. QED
    BY <2>1, <2>2
<1>5. Unsent' = rest
  <2>1. CASE blk + 1 = Len(listed)
    <3>1. blk + 2 .. Len(listed) = {}
      BY <1>2, <2>1
    <3>. QED
      BY <1>1, <2>1, <3>1 DEF Unsent
  <2>2. CASE blk + 1 # Len(listed)
    <3>1. blk' + 1 = blk + 2 /\ listed' = listed
      BY <1>1, <1>2, <2>2
    <3>. QED
      BY <1>1, <3>1 DEF Unsent
  <2>. QED
    BY <2>1, <2>2
<1>. HIDE DEF t0, rest
<1>6. Away' = Away
  BY <1>1, <1>4, <1>5 DEF Away
<1>7. CompTypes'
  <2>1. /\ argi' \in 1 .. Files + 1 /\ blk' \in Nat
        /\ IF listed' = <<>> THEN blk' = 0
           ELSE /\ argi' \in Comp!File /\ ~Comp!Discarded(argi')
                /\ listed' = BlockList(argi') /\ blk' < Len(listed')
    BY <1>0, <1>1, <1>2, CompressorAssumption DEF CompTypes, Comp!File
  <2>2. \A t \in tasks' \cup written' : IsBlock(t)
    BY <1>0, <1>1, <1>3 DEF CompTypes
  <2>3. IF listed' = <<>> THEN blk' = 0
        ELSE /\ argi' \in Comp!File /\ ~Comp!Discarded(argi)'
             /\ listed' = BlockList(argi)' /\ blk' < Len(listed')
    <3>1. listed' # <<>> => argi' = argi
      BY <1>1
    <3>. QED
      BY <1>1, <2>1, <3>1, SameList
  <2>. QED
    BY <1>0, <1>1, <2>1, <2>2, <2>3, SameList DEF CompTypes
<1>8. BlockOnce'
  <2>1. Unsent' \cap tasks' = {}
    BY <1>1, <1>3, <1>4, <1>5 DEF CompParts, BlockOnce
  <2>2. Away' \cap written' = {}
    BY <1>1, <1>6 DEF CompParts, BlockOnce
  <2>3. \A w \in Comp!Node : work[w] # Comp!NoTask => work[w] \notin Unsent' \cup tasks'
    BY <1>1, <1>4, <1>5 DEF CompParts, BlockOnce
  <2>. QED
    BY <1>1, <2>1, <2>2, <2>3 DEF CompParts, BlockOnce
<1>9. ASSUME NEW f \in Comp!File
      PROVE  FileInv(f)'
  <2>0. FileInv(f) /\ f \in Nat /\ argi \in Nat
    BY <1>0 DEF CompParts, CompTypes, Comp!File
  <2>1. Fresh(f)' <=> Fresh(f)
    BY <1>1, <2>0 DEF Fresh
  <2>2. SameHere(f)
    BY <1>1, NoFault DEF SameHere
  <2>. QED
    BY <1>1, <1>6, <2>0, <2>1, <2>2, SameFile
<1>. QED
  BY <1>7, <1>8, <1>9

(* A worker takes a block.                                                   *)
LEMMA TakeStep ==
  ASSUME CompParts, NEW w \in Comp!Node, Comp!TakeTask(w)
  PROVE  CompTypes' /\ BlockOnce' /\ \A f \in Comp!File : FileInv(f)'
<1>0. CompTypes
  BY DEF CompParts
<1>1. PICK t \in tasks : work' = [work EXCEPT ![w] = t] /\ tasks' = tasks \ {t}
  BY DEF Comp!TakeTask
<1>2. /\ work[w] = Comp!NoTask
      /\ UNCHANGED <<options, arguments, faults, argi, blk, listed, written, blocksOf, dirV, part,
                     cut, packed, target, original, tmpdir>>
  BY DEF Comp!TakeTask, Comp!disk
<1>3. IsBlock(t) /\ t # Comp!NoTask
  BY <1>0, BlockIs DEF CompTypes
<1>4. work'[w] = t /\ \A v \in Comp!Node : v # w => work'[v] = work[v]
  BY <1>0, <1>1 DEF CompTypes
<1>5. Unsent' = Unsent
  BY <1>2 DEF Unsent
<1>6. \A x : x # Comp!NoTask => (x \in Away' <=> x \in Away)
  BY <1>1, <1>2, <1>4, <1>5 DEF Away
<1>7. CompTypes'
  <2>1. work' = [v \in Comp!Node |-> work'[v]]
    BY <1>0, <1>1 DEF CompTypes
  <2>2. \A v \in Comp!Node : work'[v] = Comp!NoTask \/ IsBlock(work'[v])
    BY <1>0, <1>3, <1>4 DEF CompTypes
  <2>. QED
    BY <1>0, <1>1, <1>2, <2>1, <2>2, SameList DEF CompTypes
<1>8. BlockOnce'
  <2>1. t \notin Unsent /\ t \notin written /\ \A v \in Comp!Node : work[v] # t
    BY <1>1, <1>3 DEF CompParts, BlockOnce, Away
  <2>2. Unsent' \cap tasks' = {}
    BY <1>1, <1>5 DEF CompParts, BlockOnce
  <2>3. Away' \cap written' = {}
    <3>1. Comp!NoTask \notin written
      BY <1>0, BlockIs DEF CompTypes
    <3>. QED
      BY <1>2, <1>6, <3>1 DEF CompParts, BlockOnce
  <2>4. ASSUME NEW u \in Comp!Node, work'[u] # Comp!NoTask
        PROVE  /\ work'[u] \notin Unsent' \cup tasks'
               /\ \A v \in Comp!Node : v # u => work'[v] # work'[u]
    BY <1>1, <1>4, <1>5, <2>1, <2>4 DEF CompParts, BlockOnce
  <2>. QED
    BY <2>2, <2>3, <2>4 DEF BlockOnce
<1>9. ASSUME NEW f \in Comp!File
      PROVE  FileInv(f)'
  <2>1. \A k \in Ids(f) : BlockList(f)[k] # Comp!NoTask
    BY <1>0, ListFacts
  <2>2. Fresh(f)' <=> Fresh(f)
    BY <1>2 DEF Fresh
  <2>3. SameHere(f)
    BY <1>2, NoFault DEF SameHere
  <2>. QED
    BY <1>2, <1>6, <2>1, <2>2, <2>3, SameFile DEF CompParts
<1>. QED
  BY <1>7, <1>8, <1>9

(* A step that leaves the blocks where they are, and all files but one that  *)
(* is decompressed.                                                          *)
LEMMA CompQuiet ==
  ASSUME CompParts,
         UNCHANGED <<options, arguments, argi, blk, listed, tasks, work, written, blocksOf, dirV,
                     part, cut, packed, target, original, tmpdir>>,
         \A f \in Comp!File :
           \/ Comp!Untroubled(f)' <=> Comp!Untroubled(f)
           \/ ~options.comp /\ ~Comp!Untroubled(f)' /\ ~Fresh(f)
  PROVE  CompTypes' /\ BlockOnce' /\ \A f \in Comp!File : FileInv(f)'
<1>1. Unsent' = Unsent /\ Away' = Away
  BY DEF Unsent, Away
<1>2. CompTypes'
  BY SameList DEF CompParts, CompTypes
<1>3. BlockOnce'
  BY <1>1 DEF CompParts, BlockOnce
<1>4. ASSUME NEW f \in Comp!File
      PROVE  FileInv(f)'
  <2>1. Fresh(f)' <=> Fresh(f)
    BY DEF Fresh
  <2>2. CASE Comp!Untroubled(f)' <=> Comp!Untroubled(f)
    <3>1. SameHere(f)
      BY <2>2 DEF SameHere
    <3>. QED
      BY <1>1, <2>1, <3>1, SameFile DEF CompParts
  <2>3. CASE ~options.comp /\ ~Comp!Untroubled(f)' /\ ~Fresh(f)
    BY <2>1, <2>3 DEF FileInv
  <2>. QED
    BY <2>2, <2>3
<1>. QED
  BY <1>2, <1>3, <1>4

(* A file whose block is at a worker, or at the writer, is not fresh.        *)
LEMMA NotFresh ==
  ASSUME CompParts, NEW t, IsBlock(t), t \in Away \/ t \in written
  PROVE  ~Fresh(t.file)
<1>1. t.file \in Comp!File /\ t.blockid \in Ids(t.file) /\ t = BlockList(t.file)[t.blockid]
  BY DEF IsBlock
<1>2. t.blockid \in Waiting(t.file) \/ t.blockid \in AtWriter(t.file)
  BY <1>1 DEF Waiting, AtWriter
<1>3. ~Untouched(t.file) /\ FileInv(t.file)
  BY <1>1, <1>2 DEF Untouched, CompParts
<1>. QED
  BY <1>3 DEF FileInv

(* A worker ends the program.                                                *)
LEMMA KilledStep ==
  ASSUME CompParts, NEW w \in Comp!Node, Comp!WorkerKilled(w)
  PROVE  CompTypes' /\ BlockOnce' /\ \A f \in Comp!File : FileInv(f)'
<1>1. /\ ~options.comp /\ work[w] # Comp!NoTask /\ Comp!Fails(work[w].file, "seen")
      /\ UNCHANGED <<options, arguments, argi, blk, listed, tasks, work, written, blocksOf, dirV,
                     part, cut, packed, target, original, tmpdir>>
  BY DEF Comp!WorkerKilled, Comp!comp, Comp!disk
<1>2. IsBlock(work[w]) /\ work[w] \in Away
  BY <1>1 DEF CompParts, CompTypes, Away
<1>3. ~Fresh(work[w].file)
  BY <1>2, NotFresh
<1>4. /\ ~Comp!Untroubled(work[w].file)'
      /\ \A g : g # work[w].file => (Comp!Untroubled(g)' <=> Comp!Untroubled(g))
  BY <1>1, FaultOfOne
<1>. QED
  BY <1>1, <1>3, <1>4, CompQuiet

(* A worker has ended with its block, and may have forwarded it.             *)
Ends(w, t, f, k) ==
  /\ t = work[w] /\ f = t.file /\ k = t.blockid
  /\ t # Comp!NoTask /\ work' = [work EXCEPT ![w] = Comp!NoTask]
  /\ UNCHANGED <<options, arguments, argi, blk, listed, tasks, blocksOf, dirV, tmpdir>>
  /\ written' = written \/ written' = written \cup {t}
  /\ part' \in [Comp!File -> SUBSET Nat] /\ cut' \in [Comp!File -> SUBSET Nat]
  /\ packed' \in [Comp!File -> SUBSET Nat]
  /\ target' \in [Comp!File -> {"none", "ok", "bad"}]
  /\ \A g \in Comp!File : g # f => SameHere(g)

(* What that changes: the block is no longer on its way.                     *)
EndsFacts(t, f, k) ==
  /\ IsBlock(t) /\ t.nblocks = Len(BlockList(f)) /\ f \in Comp!File
  /\ k \in Waiting(f) /\ k \notin AtWriter(f) /\ k \in Ids(f)
  /\ options.comp \/ Comp!Untroubled(f) =>
       Opened(f) /\ IF Many(f) THEN InProgress(f) ELSE Single(f)
  /\ Waiting(f)' = Waiting(f) \ {k}
  /\ AtWriter(f)' = IF written' = written THEN AtWriter(f) ELSE AtWriter(f) \cup {k}
  /\ CompTypes' /\ BlockOnce'
  /\ \A g \in Comp!File : g # f => FileInv(g)'
  /\ (options.comp \/ (Comp!Untroubled(f) /\ Comp!Untroubled(f)') =>
        IF Many(f) THEN InProgress(f)' ELSE Single(f)') => FileInv(f)'

(* The facts above hold of the worker's block.                                *)
LEMMA EndsStep ==
  ASSUME CompParts, NEW w \in Comp!Node, NEW t, NEW f, NEW k, Ends(w, t, f, k),
         Comp!Untroubled(f)' => Comp!Untroubled(f)
  PROVE  EndsFacts(t, f, k)
<1>0. CompTypes /\ BlockOnce
  BY DEF CompParts
<1>1. IsBlock(t) /\ t # Comp!NoTask /\ t = work[w] /\ f = t.file /\ k = t.blockid
  BY <1>0 DEF CompTypes, Ends
<1>2. /\ f \in Comp!File /\ k \in Ids(f) /\ t = BlockList(f)[k] /\ t.nblocks = Len(BlockList(f))
      /\ ~Comp!Discarded(f)
      /\ \A g \in Comp!File : \A j \in Ids(g) : t = BlockList(g)[j] => g = f /\ j = k
  BY <1>0, <1>1, BlockIs
<1>3. t \in Away /\ t \notin written /\ t \notin Unsent \cup tasks
      /\ \A v \in Comp!Node : v # w => work[v] # t
  BY <1>0, <1>1 DEF Away, BlockOnce
<1>4. work'[w] = Comp!NoTask /\ \A v \in Comp!Node : v # w => work'[v] = work[v]
  BY <1>0 DEF CompTypes, Ends
<1>5. Unsent' = Unsent
  BY DEF Unsent, Ends
<1>6. \A x : x # Comp!NoTask => (x \in Away' <=> x \in Away /\ x # t)
  <2>1. tasks' = tasks
    BY DEF Ends
  <2>. QED
    BY <1>1, <1>3, <1>4, <1>5, <2>1 DEF Away
<1>7. options' = options /\ arguments' = arguments /\ dirV' = dirV
  BY DEF Ends
<1>8. \A g : /\ BlockList(g)' = BlockList(g) /\ Ids(g)' = Ids(g) /\ Many(g)' = Many(g)
             /\ Comp!Discarded(g)' = Comp!Discarded(g) /\ Opened(g)' = Opened(g)
             /\ (Fresh(g)' <=> Fresh(g))
  <2>1. \A g : Fresh(g)' <=> Fresh(g)
    BY DEF Fresh, Ends
  <2>. QED
    BY <1>7, <2>1, SameList
<1>9. k \in Waiting(f) /\ k \notin AtWriter(f)
  BY <1>2, <1>3 DEF Waiting, AtWriter
<1>10. /\ ~Fresh(f)
       /\ options.comp \/ Comp!Untroubled(f) =>
            Opened(f) /\ IF Many(f) THEN InProgress(f) ELSE Single(f)
  <2>1. ~Untouched(f) /\ ~Joined(f)
    BY <1>9 DEF Untouched, Joined
  <2>. QED
    BY <1>2, <2>1 DEF CompParts, FileInv
<1>11. Waiting(f)' = Waiting(f) \ {k}
  <2>1. \A j \in Ids(f) : BlockList(f)[j] # Comp!NoTask
    BY <1>0, <1>2, ListFacts
  <2>2. \A j \in Ids(f) : BlockList(f)[j] \in Away' <=> BlockList(f)[j] \in Away /\ j # k
    BY <1>2, <1>6, <2>1
  <2>. QED
    BY <1>8, <2>2 DEF Waiting
<1>12. AtWriter(f)' = IF written' = written THEN AtWriter(f) ELSE AtWriter(f) \cup {k}
  <2>1. CASE written' = written
    BY <1>8, <2>1 DEF AtWriter
  <2>2. CASE written' # written
    <3>1. written' = written \cup {t}
      BY <2>2 DEF Ends
    <3>2. \A j \in Ids(f) : BlockList(f)[j] \in written' <=> BlockList(f)[j] \in written \/ j = k
      BY <1>2, <3>1
    <3>. QED
      BY <1>2, <1>8, <2>2, <3>2 DEF AtWriter
  <2>. QED
    BY <2>1, <2>2
<1>13. written' \subseteq written \cup {t} /\ UNCHANGED <<argi, blk, listed, tasks, tmpdir, blocksOf>>
  BY DEF Ends
<1>14. CompTypes'
  <2>1. work' = [v \in Comp!Node |-> work'[v]]
    BY <1>0 DEF CompTypes, Ends
  <2>2. \A v \in Comp!Node : work'[v] = Comp!NoTask \/ IsBlock(work'[v])
    BY <1>0, <1>4 DEF CompTypes
  <2>3. \A x \in tasks' \cup written' : IsBlock(x)
    BY <1>0, <1>1, <1>13 DEF CompTypes
  <2>4. \A x : IsBlock(x)' = IsBlock(x)
    BY <1>7, SameList
  <2>5. /\ part' \in [Comp!File -> SUBSET Nat] /\ cut' \in [Comp!File -> SUBSET Nat]
        /\ packed' \in [Comp!File -> SUBSET Nat]
        /\ target' \in [Comp!File -> {"none", "ok", "bad"}]
    BY DEF Ends
  <2>. QED
    BY <1>0, <1>7, <1>8, <1>13, <2>1, <2>2, <2>3, <2>4, <2>5 DEF CompTypes
<1>15. BlockOnce'
  <2>1. Unsent' \cap tasks' = {}
    BY <1>0, <1>5, <1>13 DEF BlockOnce
  <2>2. Away' \cap written' = {}
    <3>1. \A x \in written' : x # Comp!NoTask
      BY <1>0, <1>1, <1>13, BlockIs DEF CompTypes
    <3>. QED
      BY <1>0, <1>6, <1>13, <3>1 DEF BlockOnce
  <2>3. ASSUME NEW u \in Comp!Node, work'[u] # Comp!NoTask
        PROVE  /\ work'[u] \notin Unsent' \cup tasks'
               /\ \A v \in Comp!Node : v # u => work'[v] # work'[u]
    BY <1>0, <1>4, <1>5, <1>13, <2>3 DEF BlockOnce
  <2>. QED
    BY <2>1, <2>2, <2>3 DEF BlockOnce
<1>16. ASSUME NEW g \in Comp!File, g # f
       PROVE  FileInv(g)'
  <2>1. \A j \in Ids(g) : BlockList(g)[j] # Comp!NoTask /\ BlockList(g)[j] # t
    BY <1>0, <1>2, <1>16, ListFacts
  <2>2. \A j \in Ids(g) : /\ BlockList(g)[j] \in Away' <=> BlockList(g)[j] \in Away
                          /\ BlockList(g)[j] \in written' <=> BlockList(g)[j] \in written
    <3>1. written \subseteq written'
      BY DEF Ends
    <3>. QED
      BY <1>6, <1>13, <2>1, <3>1
  <2>3. FileInv(g) /\ SameHere(g)
    BY <1>16 DEF CompParts, Ends
  <2>. QED
    BY <1>7, <1>8, <2>2, <2>3, SameFile
<1>17. (options.comp \/ (Comp!Untroubled(f) /\ Comp!Untroubled(f)') =>
          IF Many(f) THEN InProgress(f)' ELSE Single(f)') => FileInv(f)'
  BY <1>2, <1>7, <1>8, <1>10 DEF FileInv
<1>. QED
  BY <1>1, <1>2, <1>9, <1>10, <1>11, <1>12, <1>14, <1>15, <1>16, <1>17 DEF EndsFacts

(* A worker compresses its block, or fails to.                               *)
LEMMA CompressStep ==
  ASSUME CompParts, NEW w \in Comp!Node, Comp!Compress(w)
  PROVE  CompTypes' /\ BlockOnce' /\ \A f \in Comp!File : FileInv(f)'
<1>. PICK t : t = work[w]
  OBVIOUS
<1>. PICK f, k : f = t.file /\ k = t.blockid
  OBVIOUS
<1>0. CompTypes /\ f \in Comp!File /\ k \in Nat
  <2>1. CompTypes /\ IsBlock(t)
    BY DEF CompParts, CompTypes, Comp!Compress
  <2>. QED
    BY <2>1 DEF IsBlock, Ids
<1>1. /\ options.comp /\ t # Comp!NoTask /\ work' = [work EXCEPT ![w] = Comp!NoTask]
      /\ UNCHANGED <<options, arguments, argi, blk, listed, tasks, blocksOf, dirV, packed, tmpdir>>
  BY DEF Comp!Compress, Comp!Idle, Comp!comp
<1>2. \/ /\ t.nblocks = 1 /\ UNCHANGED <<faults, part, cut, written>>
         /\ target' = [target EXCEPT ![f] = "ok"]
         /\ (original' = original \/ original' = original \ {f})
      \/ /\ t.nblocks = 1 /\ Comp!Fails(f, "unseen") /\ UNCHANGED <<part, cut, written, original>>
         /\ \E r \in {"none", "bad"} : target' = [target EXCEPT ![f] = r]
      \/ /\ t.nblocks # 1 /\ UNCHANGED <<faults, cut, target, original>>
         /\ part' = [part EXCEPT ![f] = @ \cup {k}] /\ written' = written \cup {t}
      \/ /\ Comp!Fails(f, "seen") /\ UNCHANGED <<part, target, original, written>>
         /\ (t.nblocks = 1 => cut' = cut)
         /\ (cut' = cut \/ cut' = [cut EXCEPT ![f] = @ \cup {k}])
  <2>1. CASE Comp!Write(t, TRUE)
    BY <2>1 DEF Comp!Write, Comp!oneblockfile, Comp!Removed, Comp!Works, Comp!Put, Comp!Gets
  <2>2. CASE Comp!Write(t, FALSE)
    BY <2>2 DEF Comp!Write, Comp!oneblockfile, Comp!Removed, Comp!Put, Comp!Gets
  <2>3. CASE Comp!Fails(f, "seen") /\ UNCHANGED <<part, cut, target, original, written>>
    BY <2>3
  <2>. QED
    BY <2>1, <2>2, <2>3 DEF Comp!Compress
<1>3. /\ part' \in [Comp!File -> SUBSET Nat] /\ cut' \in [Comp!File -> SUBSET Nat]
      /\ packed' \in [Comp!File -> SUBSET Nat]
      /\ target' \in [Comp!File -> {"none", "ok", "bad"}]
  <2>1. /\ part' = part \/ part' = [part EXCEPT ![f] = @ \cup {k}]
        /\ cut' = cut \/ cut' = [cut EXCEPT ![f] = @ \cup {k}]
        /\ target' = target \/ \E r \in {"none", "ok", "bad"} : target' = [target EXCEPT ![f] = r]
    BY <1>2
  <2>2. /\ part \in [Comp!File -> SUBSET Nat] /\ cut \in [Comp!File -> SUBSET Nat]
        /\ packed \in [Comp!File -> SUBSET Nat] /\ target \in [Comp!File -> {"none", "ok", "bad"}]
    BY <1>0 DEF CompTypes
  <2>. QED
    BY <1>0, <1>1, <2>1, <2>2
<1>4. /\ Comp!Untroubled(f)' => faults' = faults /\ Comp!Untroubled(f)
      /\ \A g : g # f => (Comp!Untroubled(g)' <=> Comp!Untroubled(g))
  BY <1>2, FaultOfOne, NoFault
<1>e. Ends(w, t, f, k)
  <2>1. \A g \in Comp!File : g # f =>
            /\ part'[g] = part[g] /\ cut'[g] = cut[g] /\ target'[g] = target[g]
            /\ (g \in original' <=> g \in original)
    BY <1>0, <1>2 DEF CompTypes
  <2>2. \A g \in Comp!File : g # f => SameHere(g)
    BY <1>1, <1>4, <2>1 DEF SameHere
  <2>. QED
    BY <1>1, <1>2, <1>3, <2>2 DEF Ends
<1>5. EndsFacts(t, f, k)
  BY <1>4, <1>e, EndsStep
<1>6. /\ t.nblocks = Len(BlockList(f))
      /\ k \in Waiting(f) /\ k \notin AtWriter(f) /\ k \in Ids(f)
      /\ IF Many(f) THEN InProgress(f) ELSE Single(f)
      /\ Waiting(f)' = Waiting(f) \ {k}
      /\ AtWriter(f)' = IF written' = written THEN AtWriter(f) ELSE AtWriter(f) \cup {k}
      /\ (IF Many(f) THEN InProgress(f)' ELSE Single(f)') => FileInv(f)'
  BY <1>1, <1>5 DEF EndsFacts
<1>7. Ids(f)' = Ids(f)
  BY <1>0, <1>1, SameList
<1>8. CASE ~Many(f)
  <2>1. t.nblocks = 1 /\ Waiting(f) = {k}
    <3>1. Len(BlockList(f)) = 1 /\ Ids(f) = 1 .. Len(BlockList(f)) /\ Waiting(f) \subseteq Ids(f)
      BY <1>8 DEF Many, Ids, Waiting
    <3>2. Ids(f) = 1 .. 1 /\ 1 .. 1 = {1}
      BY <3>1
    <3>. QED
      BY <1>6, <3>1, <3>2
  <2>2. Waiting(f)' = {}
    BY <1>6, <2>1
  <2>3. UNCHANGED <<part, cut, packed, written, blocksOf, tmpdir>>
    BY <1>1, <1>2, <2>1
  <2>4. /\ f \notin original' => target'[f] = "ok"
        /\ Comp!Untroubled(f)' => target'[f] = "ok"
    <3>1. f \in original
      BY <1>6, <1>8 DEF Single
    <3>. QED
      BY <1>0, <1>2, <2>1, <3>1, FaultOfOne DEF CompTypes
  <2>5. Single(f)'
    BY <1>1, <1>6, <1>8, <2>2, <2>3, <2>4 DEF Single
  <2>. QED
    BY <1>5, <1>6, <1>8, <2>5 DEF EndsFacts
<1>9. CASE Many(f)
  <2>0. InProgress(f) /\ t.nblocks # 1
    BY <1>6, <1>9 DEF Many
  <2>1. target' = target /\ original' = original
    BY <1>2, <2>0
  <2>2. /\ part[f] \subseteq Ids(f) /\ part[f] \cap Waiting(f) = {} /\ AtWriter(f) \subseteq part[f]
        /\ Comp!Untroubled(f) => part[f] \cup Waiting(f) = Ids(f) /\ cut[f] = {}
    BY <2>0 DEF InProgress
  <2>3. /\ part'[f] \subseteq Ids(f) /\ part'[f] \cap Waiting(f)' = {} /\ AtWriter(f)' \subseteq part'[f]
        /\ part'[f] \ AtWriter(f)' = part[f] \ AtWriter(f)
        /\ Comp!Untroubled(f)' => part'[f] \cup Waiting(f)' = Ids(f) /\ cut'[f] = {}
    <3>1. CASE part' = [part EXCEPT ![f] = @ \cup {k}] /\ written' = written \cup {t}
                 /\ UNCHANGED <<faults, cut>>
      <4>1. t = BlockList(f)[k]
        BY <1>0, <1>1, BlockIs DEF CompTypes
      <4>2. written' # written
        BY <1>6, <3>1, <4>1 DEF AtWriter
      <4>3. part'[f] = part[f] \cup {k} /\ AtWriter(f)' = AtWriter(f) \cup {k}
        BY <1>0, <1>6, <3>1, <4>2 DEF CompTypes
      <4>4. Comp!Untroubled(f)' => Comp!Untroubled(f)
        BY <1>4
      <4>. QED
        BY <1>6, <2>2, <3>1, <4>3, <4>4
    <3>2. CASE Comp!Fails(f, "seen") /\ part' = part /\ written' = written
      <4>1. ~Comp!Untroubled(f)' /\ AtWriter(f)' = AtWriter(f)
        BY <1>6, <3>2, FaultOfOne
      <4>. QED
        BY <1>6, <2>2, <3>2, <4>1
    <3>. QED
      BY <1>2, <2>0, <3>1, <3>2
  <2>4. InProgress(f)'
    <3>1. /\ target[f] = "none" /\ f \in original /\ f \notin tmpdir /\ packed[f] = {}
          /\ blocksOf[f] = Cardinality(part[f] \ AtWriter(f)) /\ part[f] \ AtWriter(f) # Ids(f)
      BY <1>1, <2>0 DEF InProgress
    <3>. QED
      BY <1>1, <1>7, <2>1, <2>3, <3>1 DEF InProgress
  <2>. QED
    BY <1>5, <1>6, <1>9, <2>4 DEF EndsFacts
<1>. QED
  BY <1>8, <1>9

(* A worker decompresses its block, or fails to, and forwards it.            *)
LEMMA DecompressStep ==
  ASSUME CompParts, NEW w \in Comp!Node, Comp!Decompress(w)
  PROVE  CompTypes' /\ BlockOnce' /\ \A f \in Comp!File : FileInv(f)'
<1>. PICK t : t = work[w]
  OBVIOUS
<1>. PICK f, k : f = t.file /\ k = t.blockid
  OBVIOUS
<1>0. CompTypes /\ IsBlock(t) /\ f \in Comp!File /\ k \in Nat
  <2>1. CompTypes /\ IsBlock(t)
    BY DEF CompParts, CompTypes, Comp!Decompress
  <2>. QED
    BY <2>1 DEF IsBlock, Ids
<1>1. /\ ~options.comp /\ t # Comp!NoTask /\ work' = [work EXCEPT ![w] = Comp!NoTask]
      /\ UNCHANGED <<options, arguments, argi, blk, listed, tasks, blocksOf, dirV, tmpdir>>
  BY DEF Comp!Decompress, Comp!Idle, Comp!comp
<1>2. \/ /\ faults' = faults
         /\ \/ /\ arguments[f].content = "small" /\ UNCHANGED <<part, cut, packed, written>>
               /\ target' = [target EXCEPT ![f] = "ok"]
            \/ /\ arguments[f].content # "small" /\ UNCHANGED <<cut, target, original>>
               /\ part' = [part EXCEPT ![f] = @ \cup {k}]
               /\ written' = IF t.nblocks = 1 THEN written ELSE written \cup {t}
               /\ t.nblocks # 1 => packed' = [packed EXCEPT ![f] = @ \ {k}]
      \/ \E how \in {"seen", "unseen"} : Comp!Fails(f, how)
  BY DEF Comp!Decompress, Comp!DecompressSmall, Comp!DecompressPart, Comp!oneblockfile, Comp!Works,
         Comp!Put, Comp!Gets
<1>3. /\ part' = part \/ part' = [part EXCEPT ![f] = @ \cup {k}]
      /\ cut' = cut \/ cut' = [cut EXCEPT ![f] = @ \cup {k}]
      /\ packed' = packed \/ packed' = [packed EXCEPT ![f] = @ \ {k}]
      /\ target' = target \/ \E r \in {"none", "ok", "bad"} : target' = [target EXCEPT ![f] = r]
      /\ original' = original \/ original' = original \ {f}
      /\ written' = written \/ written' = written \cup {t}
  <2>1. CASE Comp!DecompressSmall(t)
    BY <2>1 DEF Comp!DecompressSmall, Comp!Put, Comp!Removed
  <2>2. CASE Comp!DecompressPart(t)
    BY <2>2 DEF Comp!DecompressPart, Comp!Gets
  <2>. QED
    BY <2>1, <2>2 DEF Comp!Decompress
<1>4. /\ part' \in [Comp!File -> SUBSET Nat] /\ cut' \in [Comp!File -> SUBSET Nat]
      /\ packed' \in [Comp!File -> SUBSET Nat]
      /\ target' \in [Comp!File -> {"none", "ok", "bad"}]
  <2>1. /\ part \in [Comp!File -> SUBSET Nat] /\ cut \in [Comp!File -> SUBSET Nat]
        /\ packed \in [Comp!File -> SUBSET Nat] /\ target \in [Comp!File -> {"none", "ok", "bad"}]
    BY <1>0 DEF CompTypes
  <2>. QED
    BY <1>0, <1>3, <2>1
<1>5. /\ Comp!Untroubled(f)' => faults' = faults /\ Comp!Untroubled(f)
      /\ \A g : g # f => (Comp!Untroubled(g)' <=> Comp!Untroubled(g))
  BY <1>2, FaultOfOne, NoFault
<1>e. Ends(w, t, f, k)
  <2>1. \A g \in Comp!File : g # f =>
            /\ part'[g] = part[g] /\ cut'[g] = cut[g] /\ packed'[g] = packed[g]
            /\ target'[g] = target[g] /\ (g \in original' <=> g \in original)
    BY <1>0, <1>3 DEF CompTypes
  <2>2. \A g \in Comp!File : g # f => SameHere(g)
    BY <1>1, <1>5, <2>1 DEF SameHere
  <2>. QED
    BY <1>1, <1>3, <1>4, <2>2 DEF Ends
<1>6. EndsFacts(t, f, k)
  BY <1>5, <1>e, EndsStep
<1>7. ASSUME Comp!Untroubled(f), Comp!Untroubled(f)'
      PROVE  IF Many(f) THEN InProgress(f)' ELSE Single(f)'
  <2>1. /\ t.nblocks = Len(BlockList(f)) /\ Opened(f)
        /\ k \in Waiting(f) /\ k \notin AtWriter(f) /\ k \in Ids(f)
        /\ IF Many(f) THEN InProgress(f) ELSE Single(f)
        /\ Waiting(f)' = Waiting(f) \ {k}
        /\ AtWriter(f)' = IF written' = written THEN AtWriter(f) ELSE AtWriter(f) \cup {k}
    BY <1>6, <1>7 DEF EndsFacts
  <2>2. /\ faults' = faults /\ Ids(f)' = Ids(f) /\ t = BlockList(f)[k] /\ ~Comp!Discarded(f)
    BY <1>0, <1>1, <1>5, <1>7, SameList, BlockIs
  <2>3. (Many(f) <=> arguments[f].content = "tar") /\ (Many(f) <=> arguments[f].content # "small")
    <3>1. arguments[f].content \in {"small", "tar"}
      BY <1>0, <1>1, <2>2, InputFacts, ListFacts
    <3>2. Many(f) <=> arguments[f].content = "tar"
      BY <1>0, <1>1, <2>1, <2>2, ListFacts
    <3>. QED
      BY <3>1, <3>2
  <2>4. CASE ~Many(f)
    <3>1. Waiting(f) = {k}
      <4>1. Len(BlockList(f)) = 1 /\ Ids(f) = 1 .. Len(BlockList(f)) /\ Waiting(f) \subseteq Ids(f)
        BY <2>4 DEF Many, Ids, Waiting
      <4>2. Ids(f) = 1 .. 1 /\ 1 .. 1 = {1}
        BY <4>1
      <4>. QED
        BY <2>1, <4>2, <4>1
    <3>2. /\ UNCHANGED <<part, cut, packed, written, blocksOf, tmpdir>> /\ target'[f] = "ok"
      <4>1. \A how \in {"seen", "unseen"} : ~Comp!Fails(f, how)
        BY <1>7, FaultOfOne
      <4>2. UNCHANGED <<part, cut, packed, written>> /\ target' = [target EXCEPT ![f] = "ok"]
        BY <1>2, <2>3, <2>4, <4>1
      <4>. QED
        BY <1>0, <1>1, <4>2 DEF CompTypes
    <3>3. Waiting(f)' = {} /\ AtWriter(f)' = AtWriter(f)
      BY <2>1, <3>1, <3>2
    <3>. QED
      BY <2>1, <2>4, <3>2, <3>3 DEF Single
  <2>5. CASE Many(f)
    <3>1. /\ UNCHANGED <<cut, target, original, blocksOf>> /\ written' = written \cup {t}
          /\ part'[f] = part[f] \cup {k} /\ packed'[f] = packed[f] \ {k}
      <4>1. \A how \in {"seen", "unseen"} : ~Comp!Fails(f, how)
        BY <1>7, FaultOfOne
      <4>2. t.nblocks # 1
        BY <2>1, <2>5 DEF Many
      <4>3. /\ UNCHANGED <<cut, target, original>> /\ written' = written \cup {t}
            /\ part' = [part EXCEPT ![f] = @ \cup {k}] /\ packed' = [packed EXCEPT ![f] = @ \ {k}]
        BY <1>2, <2>3, <2>5, <4>1, <4>2
      <4>. QED
        BY <1>0, <1>1, <4>3 DEF CompTypes
    <3>2. AtWriter(f)' = AtWriter(f) \cup {k}
      <4>1. t \notin written
        BY <2>1, <2>2 DEF AtWriter
      <4>2. written' # written
        BY <3>1, <4>1
      <4>. QED
        BY <2>1, <4>2
    <3>3. InProgress(f)
      BY <2>1, <2>5
    <3>4. /\ part[f] \subseteq Ids(f) /\ part[f] \cap Waiting(f) = {} /\ AtWriter(f) \subseteq part[f]
          /\ part[f] \cup Waiting(f) = Ids(f) /\ cut[f] = {} /\ packed[f] = Waiting(f)
          /\ target[f] = "none" /\ f \in original
          /\ blocksOf[f] = Cardinality(part[f] \ AtWriter(f)) /\ part[f] \ AtWriter(f) # Ids(f)
      BY <1>1, <1>7, <3>3 DEF InProgress
    <3>5. /\ part'[f] \subseteq Ids(f) /\ part'[f] \cap Waiting(f)' = {}
          /\ AtWriter(f)' \subseteq part'[f] /\ part'[f] \cup Waiting(f)' = Ids(f)
          /\ packed'[f] = Waiting(f)' /\ part'[f] \ AtWriter(f)' = part[f] \ AtWriter(f)
      BY <2>1, <3>1, <3>2, <3>4
    <3>6. ~options'.comp
      BY <1>1
    <3>7. /\ target'[f] = "none" /\ f \in original' /\ cut'[f] = {} /\ Ids(f)' = Ids(f)
          /\ blocksOf'[f] = Cardinality(part'[f] \ AtWriter(f)')
          /\ part'[f] \ AtWriter(f)' # Ids(f)'
      BY <2>2, <3>1, <3>4, <3>5
    <3>8. InProgress(f)'
      BY <3>5, <3>6, <3>7 DEF InProgress
    <3>. QED
      BY <2>5, <3>8
  <2>. QED
    BY <2>4, <2>5
<1>. QED
  BY <1>1, <1>6, <1>7 DEF EndsFacts

(* There are n numbers from 1 to n.                                          *)
LEMMA FirstNumbers ==
  ASSUME NEW n \in Nat
  PROVE  IsFiniteSet(1 .. n) /\ Cardinality(1 .. n) = n
<1>1. IsFiniteSet(1 .. n) /\ Cardinality(1 .. n) = IF 1 > n THEN 0 ELSE n - 1 + 1
  BY FS_Interval
<1>. QED
  BY <1>1

(* The writer takes block k of file f; the last one is the one it has not    *)
(* counted yet.                                                              *)
Receives(t, f, k) ==
  /\ t \in written /\ written' = written \ {t} /\ f = t.file /\ k = t.blockid
  /\ UNCHANGED <<options, arguments, argi, blk, listed, tasks, work, dirV>>
  /\ blocksOf' = [blocksOf EXCEPT ![f] = IF Comp!LastBlock(t) THEN 0 ELSE @ + 1]
  /\ part' \in [Comp!File -> SUBSET Nat] /\ cut' \in [Comp!File -> SUBSET Nat]
  /\ packed' \in [Comp!File -> SUBSET Nat]
  /\ target' \in [Comp!File -> {"none", "ok", "bad"}]
  /\ tmpdir' \in {tmpdir, tmpdir \ {f}}
  /\ original' \in {original, original \ {f}}
  /\ \A g \in Comp!File : g # f =>
       /\ part'[g] = part[g] /\ cut'[g] = cut[g] /\ packed'[g] = packed[g] /\ target'[g] = target[g]
       /\ Comp!Untroubled(g)' <=> Comp!Untroubled(g)

(* What that changes.                                                        *)
ReceiveFacts(t, f, k) ==
  /\ CompTypes' /\ BlockOnce' /\ \A g \in Comp!File : g # f => FileInv(g)'
  /\ f \in Comp!File /\ t.nblocks = Len(BlockList(f)) /\ Len(BlockList(f)) \in Nat
  /\ ~Comp!Discarded(f) /\ ~Fresh(f)'
  /\ options.comp \/ Comp!Untroubled(f) => Opened(f) /\ Many(f) /\ InProgress(f)
  /\ Ids(f)' = Ids(f) /\ Many(f)' = Many(f) /\ Opened(f)' = Opened(f)
  /\ Comp!Discarded(f)' = Comp!Discarded(f)
  /\ k \in Ids(f) /\ k \in AtWriter(f)
  /\ Waiting(f)' = Waiting(f) /\ AtWriter(f)' = AtWriter(f) \ {k}

(* The facts above hold of the writer's block.                               *)
LEMMA ReceivesStep ==
  ASSUME CompParts, NEW t, NEW f, NEW k, Receives(t, f, k)
  PROVE  ReceiveFacts(t, f, k)
<1>0. CompTypes /\ BlockOnce
  BY DEF CompParts
<1>1. /\ t \in written /\ written' = written \ {t} /\ f = t.file /\ k = t.blockid
      /\ UNCHANGED <<options, arguments, argi, blk, listed, tasks, work, dirV>>
  BY DEF Receives
<1>2. /\ IsBlock(t) /\ f \in Comp!File /\ k \in Ids(f) /\ t = BlockList(f)[k] /\ t.nblocks = Len(BlockList(f))
      /\ ~Comp!Discarded(f) /\ Len(BlockList(f)) \in Nat /\ t # Comp!NoTask
      /\ \A g \in Comp!File : \A j \in Ids(g) : t = BlockList(g)[j] => g = f /\ j = k
  BY <1>0, <1>1, BlockIs, ListFacts DEF CompTypes
<1>3. \A g : /\ BlockList(g)' = BlockList(g) /\ Ids(g)' = Ids(g) /\ Many(g)' = Many(g)
             /\ Opened(g)' = Opened(g)
             /\ Comp!Discarded(g)' = Comp!Discarded(g) /\ (Fresh(g)' <=> Fresh(g))
  <2>1. \A g : Fresh(g)' <=> Fresh(g)
    BY <1>1 DEF Fresh
  <2>. QED
    BY <1>1, <2>1, SameList
<1>4. Unsent' = Unsent /\ Away' = Away
  BY <1>1 DEF Unsent, Away
<1>5. blocksOf' \in [Comp!File -> Nat] /\ \A g \in Comp!File : g # f => blocksOf'[g] = blocksOf[g]
  <2>1. blocksOf \in [Comp!File -> Nat]
    BY <1>0 DEF CompTypes
  <2>2. PICK n \in Nat : blocksOf' = [blocksOf EXCEPT ![f] = n]
    <3>1. blocksOf[f] + 1 \in Nat
      BY <1>2, <2>1
    <3>. QED
      BY <3>1 DEF Receives
  <2>. QED
    BY <2>1, <2>2
<1>6. CompTypes'
  <2>1. /\ part' \in [Comp!File -> SUBSET Nat] /\ cut' \in [Comp!File -> SUBSET Nat]
        /\ packed' \in [Comp!File -> SUBSET Nat]
        /\ target' \in [Comp!File -> {"none", "ok", "bad"}] /\ tmpdir' \subseteq tmpdir
    BY DEF Receives
  <2>2. \A x : IsBlock(x)' = IsBlock(x)
    BY <1>1, SameList
  <2>. QED
    BY <1>0, <1>1, <1>3, <1>5, <2>1, <2>2 DEF CompTypes
<1>7. BlockOnce'
  BY <1>0, <1>1, <1>4 DEF BlockOnce
<1>8. ASSUME NEW g \in Comp!File, g # f
      PROVE  FileInv(g)'
  <2>1. SameHere(g)
    BY <1>1, <1>5, <1>8 DEF Receives, SameHere
  <2>2. \A j \in Ids(g) : BlockList(g)[j] \in written' <=> BlockList(g)[j] \in written
    BY <1>1, <1>2, <1>8
  <2>. QED
    BY <1>1, <1>3, <1>4, <2>1, <2>2, SameFile DEF CompParts
<1>9. k \in AtWriter(f) /\ Waiting(f)' = Waiting(f) /\ AtWriter(f)' = AtWriter(f) \ {k}
  <2>1. k \in AtWriter(f)
    BY <1>1, <1>2 DEF AtWriter
  <2>2. Waiting(f)' = Waiting(f)
    BY <1>3, <1>4 DEF Waiting
  <2>3. \A j \in Ids(f) : BlockList(f)[j] \in written' <=> BlockList(f)[j] \in written /\ j # k
    BY <1>1, <1>2
  <2>. QED
    BY <1>3, <2>1, <2>2, <2>3 DEF AtWriter
<1>10. ~Fresh(f)' /\ (options.comp \/ Comp!Untroubled(f) => Opened(f) /\ Many(f) /\ InProgress(f))
  <2>1. ~Untouched(f) /\ ~Single(f) /\ ~Joined(f)
    BY <1>9 DEF Untouched, Single, Joined
  <2>2. ~Fresh(f)
    BY <1>1, <1>2, NotFresh
  <2>. QED
    BY <1>2, <1>3, <2>1, <2>2 DEF CompParts, FileInv
<1>. QED
  BY <1>2, <1>3, <1>6, <1>7, <1>8, <1>9, <1>10 DEF ReceiveFacts

(* Counting to the last block.                                               *)
LEMMA LastIsAll ==
  ASSUME CompTypes, NEW t, NEW f \in Comp!File, NEW k, f = t.file, InProgress(f), Many(f),
         k \in AtWriter(f), k \in Ids(f), t.nblocks = Len(BlockList(f))
  PROVE  LET Now == (part[f] \ AtWriter(f)) \cup {k} IN
         /\ Now \subseteq Ids(f) /\ Cardinality(Now) = blocksOf[f] + 1
         /\ Comp!LastBlock(t) <=> Now = Ids(f)
         /\ Comp!LastBlock(t) => part[f] = Ids(f) /\ AtWriter(f) = {k} /\ Waiting(f) = {}
<1>. DEFINE Before == part[f] \ AtWriter(f)
            Now == Before \cup {k}
<1>1. /\ part[f] \subseteq Ids(f) /\ part[f] \cap Waiting(f) = {} /\ AtWriter(f) \subseteq part[f]
      /\ blocksOf[f] = Cardinality(Before)
  BY DEF InProgress
<1>. PICK n \in Nat : n = Len(BlockList(f))
  BY ListFacts
<1>2. IsFiniteSet(Ids(f)) /\ Cardinality(Ids(f)) = n /\ n # 1 /\ n # 0
  <2>1. Cardinality(1 .. n) = n /\ IsFiniteSet(1 .. n)
    BY FirstNumbers
  <2>2. Ids(f) = 1 .. n
    BY DEF Ids
  <2>3. n # 1 /\ n # 0
    BY <2>2 DEF Many
  <2>. QED
    BY <2>1, <2>2, <2>3
<1>3. Before \subseteq Ids(f) /\ k \notin Before /\ Now \subseteq Ids(f)
  BY <1>1
<1>. HIDE DEF Before
<1>4. IsFiniteSet(Before) /\ IsFiniteSet(Now)
  BY <1>2, <1>3, FS_Subset
<1>5. PICK m \in Nat : m = Cardinality(Before)
  BY <1>4, FS_CardinalityType
<1>6. Cardinality(Now) = m + 1
  BY <1>3, <1>4, <1>5, FS_AddElement
<1>7. Comp!LastBlock(t) <=> m > 0 /\ m + 1 = n
  BY <1>1, <1>5 DEF Comp!LastBlock
<1>8. m + 1 = n => m > 0
  <2>1. \A a, b \in Nat : a + 1 = b /\ b # 1 => a > 0
    OBVIOUS
  <2>. QED
    BY <1>2, <1>5, <2>1
<1>9. Comp!LastBlock(t) <=> Cardinality(Now) = n
  BY <1>6, <1>7, <1>8
<1>10. Cardinality(Now) = n <=> Now = Ids(f)
  BY <1>2, <1>3, FS_Subset
<1>11. ASSUME Now = Ids(f)
       PROVE  part[f] = Ids(f) /\ AtWriter(f) = {k} /\ Waiting(f) = {}
  <2>1. Waiting(f) \subseteq Ids(f)
    BY DEF Waiting
  <2>2. \A j \in AtWriter(f) : j \notin Before
    BY DEF Before
  <2>3. \A j \in Before : j \in part[f]
    BY DEF Before
  <2>. QED
    BY <1>1, <1>11, <2>1, <2>2, <2>3
<1>. QED
  BY <1>1, <1>3, <1>5, <1>6, <1>9, <1>10, <1>11 DEF Before

(* The writer receives a block; with the last one it makes the result.       *)
LEMMA ReceiveStep ==
  ASSUME CompParts, Comp!WriterReceives
  PROVE  CompTypes' /\ BlockOnce' /\ \A f \in Comp!File : FileInv(f)'
<1>0. CompTypes
  BY DEF CompParts
<1>1. PICK t \in written :
        /\ written' = written \ {t}
        /\ IF Comp!LastBlock(t)
           THEN /\ blocksOf' = [blocksOf EXCEPT ![t.file] = 0]
                /\ IF options.comp THEN Comp!Tar(t) ELSE Comp!Merge(t)
           ELSE /\ blocksOf' = [blocksOf EXCEPT ![t.file] = @ + 1]
                /\ UNCHANGED <<faults, part, cut, packed, target, original, tmpdir>>
        /\ UNCHANGED <<options, arguments, argi, blk, listed, tasks, work, dirV>>
  BY DEF Comp!WriterReceives, Comp!comp, Comp!disk
<1>. PICK f, k : f = t.file /\ k = t.blockid
  OBVIOUS
<1>2. f \in Comp!File
  BY <1>0 DEF CompTypes, IsBlock
<1>3. CASE ~Comp!LastBlock(t)
  <2>1. /\ UNCHANGED <<faults, part, cut, packed, target, original, tmpdir>>
        /\ blocksOf' = [blocksOf EXCEPT ![f] = @ + 1]
    BY <1>1, <1>3
  <2>2. Receives(t, f, k)
    BY <1>0, <1>1, <1>3, <2>1, NoFault DEF Receives, CompTypes
  <2>3. ReceiveFacts(t, f, k)
    BY <2>2, ReceivesStep
  <2>4. ASSUME InProgress(f), Many(f), Comp!Untroubled(f)' <=> Comp!Untroubled(f)
        PROVE  InProgress(f)'
    <3>1. PICK Now : Now = (part[f] \ AtWriter(f)) \cup {k}
      OBVIOUS
    <3>2. Cardinality(Now) = blocksOf[f] + 1 /\ Now # Ids(f)
      BY <1>0, <1>2, <1>3, <2>3, <2>4, <3>1, LastIsAll DEF ReceiveFacts
    <3>3. /\ k \in AtWriter(f) /\ AtWriter(f)' = AtWriter(f) \ {k}
          /\ Waiting(f)' = Waiting(f) /\ Ids(f)' = Ids(f)
      BY <2>3 DEF ReceiveFacts
    <3>4. /\ target[f] = "none" /\ f \in original
          /\ part[f] \subseteq Ids(f) /\ part[f] \cap Waiting(f) = {} /\ AtWriter(f) \subseteq part[f]
          /\ options.comp => f \notin tmpdir /\ packed[f] = {}
          /\ Comp!Untroubled(f) =>
               /\ part[f] \cup Waiting(f) = Ids(f) /\ cut[f] = {}
               /\ ~options.comp => packed[f] = Waiting(f)
      BY <2>4 DEF InProgress
    <3>5. part'[f] \ AtWriter(f)' = Now /\ AtWriter(f)' \subseteq part'[f]
      BY <2>1, <3>1, <3>3, <3>4
    <3>6. blocksOf'[f] = Cardinality(part'[f] \ AtWriter(f)') /\ part'[f] \ AtWriter(f)' # Ids(f)'
      BY <1>0, <1>2, <2>1, <3>2, <3>3, <3>5 DEF CompTypes
    <3>7. /\ target'[f] = "none" /\ f \in original'
          /\ part'[f] \subseteq Ids(f)' /\ part'[f] \cap Waiting(f)' = {}
          /\ options'.comp => f \notin tmpdir' /\ packed'[f] = {}
          /\ Comp!Untroubled(f)' =>
               /\ part'[f] \cup Waiting(f)' = Ids(f)' /\ cut'[f] = {}
               /\ ~options'.comp => packed'[f] = Waiting(f)'
      BY <1>1, <2>1, <2>4, <3>3, <3>4
    <3>. QED
      BY <3>5, <3>6, <3>7 DEF InProgress
  <2>5. (Comp!Untroubled(f)' <=> Comp!Untroubled(f)) /\ options' = options
    BY <1>1, <2>1, NoFault
  <2>6. FileInv(f)'
    BY <2>3, <2>4, <2>5 DEF FileInv, ReceiveFacts
  <2>. QED
    BY <2>3, <2>6 DEF ReceiveFacts
<1>4. CASE Comp!LastBlock(t) /\ options.comp
  <2>1. /\ blocksOf' = [blocksOf EXCEPT ![f] = 0] /\ UNCHANGED <<packed, tmpdir>>
        /\ original' \in {original, original \ {f}}
        /\ \/ /\ faults' = faults /\ target' = [target EXCEPT ![f] = IF part[f] = 1 .. t.nblocks THEN "ok" ELSE "bad"]
              /\ part' = [part EXCEPT ![f] = {}] /\ cut' = [cut EXCEPT ![f] = {}]
           \/ /\ Comp!Fails(f, "seen") /\ original' = original /\ cut' = cut
              /\ \E r \in {"none", "bad"} : target' = [target EXCEPT ![f] = r]
              /\ \E left \in SUBSET part[f] : part' = [part EXCEPT ![f] = left]
    BY <1>1, <1>4 DEF Comp!Tar, Comp!Works, Comp!Put, Comp!Empty, Comp!RemoveBigOriginal
  <2>2. /\ part' \in [Comp!File -> SUBSET Nat] /\ cut' \in [Comp!File -> SUBSET Nat]
        /\ target' \in [Comp!File -> {"none", "ok", "bad"}]
        /\ \A g \in Comp!File : g # f => part'[g] = part[g] /\ cut'[g] = cut[g] /\ target'[g] = target[g]
    <3>1. /\ part \in [Comp!File -> SUBSET Nat] /\ cut \in [Comp!File -> SUBSET Nat]
          /\ target \in [Comp!File -> {"none", "ok", "bad"}]
      BY <1>0 DEF CompTypes
    <3>. DEFINE Result == \E r \in {"none", "ok", "bad"}, p \in SUBSET Nat :
                  /\ target' = [target EXCEPT ![f] = r] /\ part' = [part EXCEPT ![f] = p]
                  /\ cut' \in {cut, [cut EXCEPT ![f] = {}]}
    <3>2. Result
      <4>1. part[f] \in SUBSET Nat
        BY <1>2, <3>1
      <4>2. ASSUME faults' = faults, part' = [part EXCEPT ![f] = {}], cut' = [cut EXCEPT ![f] = {}],
                   target' = [target EXCEPT ![f] = IF part[f] = 1 .. t.nblocks THEN "ok" ELSE "bad"]
            PROVE  Result
        <5>1. PICK r \in {"none", "ok", "bad"} : r = IF part[f] = 1 .. t.nblocks THEN "ok" ELSE "bad"
          OBVIOUS
        <5>2. target' = [target EXCEPT ![f] = r] /\ {} \in SUBSET Nat
          BY <4>2, <5>1
        <5>. QED
          BY <4>2, <5>2
      <4>3. ASSUME cut' = cut, NEW r \in {"none", "bad"}, target' = [target EXCEPT ![f] = r],
                   NEW left \in SUBSET part[f], part' = [part EXCEPT ![f] = left]
            PROVE  Result
        BY <4>1, <4>3
      <4>. QED
        BY <2>1, <4>2, <4>3
    <3>. QED
      BY <1>2, <3>1, <3>2
  <2>3. \A g : g # f => (Comp!Untroubled(g)' <=> Comp!Untroubled(g))
    BY <2>1, FaultOfOne, NoFault
  <2>4. Receives(t, f, k)
    <3>1. packed' \in [Comp!File -> SUBSET Nat]
      BY <1>0, <2>1 DEF CompTypes
    <3>. QED
      BY <1>1, <1>4, <2>1, <2>2, <2>3, <3>1 DEF Receives
  <2>5. ReceiveFacts(t, f, k)
    BY <2>4, ReceivesStep
  <2>6. InProgress(f) /\ Many(f) /\ Opened(f)
    BY <1>4, <2>5 DEF ReceiveFacts
  <2>7. part[f] = Ids(f) /\ AtWriter(f) = {k} /\ Waiting(f) = {}
    BY <1>0, <1>2, <1>4, <2>5, <2>6, LastIsAll DEF ReceiveFacts
  <2>8. part[f] = 1 .. t.nblocks /\ Waiting(f)' = {} /\ AtWriter(f)' = {} /\ blocksOf'[f] = 0
    BY <1>0, <1>2, <2>1, <2>5, <2>7 DEF ReceiveFacts, Ids, CompTypes
  <2>9. f \in original /\ f \notin tmpdir' /\ packed'[f] = {}
    BY <1>4, <2>1, <2>6 DEF InProgress
  <2>10. /\ f \notin original' => target'[f] = "ok"
         /\ Comp!Untroubled(f)' => target'[f] = "ok" /\ part'[f] = {} /\ cut'[f] = {}
    <3>1. part \in [Comp!File -> SUBSET Nat] /\ cut \in [Comp!File -> SUBSET Nat]
          /\ target \in [Comp!File -> {"none", "ok", "bad"}]
      BY <1>0 DEF CompTypes
    <3>. QED
      BY <1>2, <2>1, <2>8, <2>9, <3>1, FaultOfOne
  <2>11. Joined(f)'
    BY <2>8, <2>9, <2>10 DEF Joined
  <2>12. FileInv(f)'
    BY <2>5, <2>6, <2>11 DEF FileInv, ReceiveFacts
  <2>. QED
    BY <2>5, <2>12 DEF ReceiveFacts
<1>5. CASE Comp!LastBlock(t) /\ ~options.comp
  <2>. PICK made, errors :
         /\ made = IF part[f] = 1 .. arguments[f].size /\ dirV[f] = arguments[f].size THEN "ok" ELSE "bad"
         /\ errors = IF part[f] \cup cut[f] # 1 .. t.nblocks THEN {TRUE}
                     ELSE IF part[f] = 1 .. arguments[f].size /\ dirV[f] = arguments[f].size THEN {FALSE} ELSE BOOLEAN
    OBVIOUS
  <2>1. /\ blocksOf' = [blocksOf EXCEPT ![f] = 0]
        /\ part' = [part EXCEPT ![f] = {}] /\ cut' = [cut EXCEPT ![f] = {}]
        /\ packed' = [packed EXCEPT ![f] = {}]
        /\ tmpdir' \in {tmpdir, tmpdir \ {f}} /\ original' \in {original, original \ {f}}
        /\ target' = target \/ \E r \in {"ok", "bad"} : target' = [target EXCEPT ![f] = r]
        /\ \/ /\ faults' = faults
              /\ \E error \in errors :
                   /\ target' = [target EXCEPT ![f] = IF error THEN "bad" ELSE made]
                   /\ tmpdir' = IF ~error /\ packed[f] = {} THEN tmpdir \ {f} ELSE tmpdir
           \/ \E how \in {"seen", "unseen"} : Comp!Fails(f, how)
    BY <1>1, <1>5 DEF Comp!Merge, Comp!Merged, Comp!Works, Comp!Put, Comp!Empty, Comp!Removed
  <2>2. /\ part' \in [Comp!File -> SUBSET Nat] /\ cut' \in [Comp!File -> SUBSET Nat]
        /\ packed' \in [Comp!File -> SUBSET Nat]
        /\ target' \in [Comp!File -> {"none", "ok", "bad"}]
        /\ \A g \in Comp!File : g # f => /\ part'[g] = part[g] /\ cut'[g] = cut[g]
                                         /\ packed'[g] = packed[g] /\ target'[g] = target[g]
    <3>1. /\ part \in [Comp!File -> SUBSET Nat] /\ cut \in [Comp!File -> SUBSET Nat]
          /\ packed \in [Comp!File -> SUBSET Nat]
          /\ target \in [Comp!File -> {"none", "ok", "bad"}]
      BY <1>0 DEF CompTypes
    <3>. QED
      BY <1>2, <2>1, <3>1
  <2>3. \A g : g # f => (Comp!Untroubled(g)' <=> Comp!Untroubled(g))
    <3>1. CASE faults' = faults
      BY <3>1, NoFault
    <3>2. CASE \E how \in {"seen", "unseen"} : Comp!Fails(f, how)
      BY <3>2, FaultOfOne
    <3>. QED
      BY <2>1, <3>1, <3>2
  <2>4. Receives(t, f, k)
    BY <1>1, <1>5, <2>1, <2>2, <2>3 DEF Receives
  <2>5. ReceiveFacts(t, f, k)
    BY <2>4, ReceivesStep
  <2>6. ASSUME Comp!Untroubled(f)'
        PROVE  Joined(f)' /\ Many(f) /\ Opened(f)
    <3>1. faults' = faults /\ Comp!Untroubled(f)
      BY <2>1, <2>6, FaultOfOne, NoFault
    <3>2. InProgress(f) /\ Many(f) /\ Opened(f)
      BY <2>5, <3>1 DEF ReceiveFacts
    <3>3. part[f] = Ids(f) /\ AtWriter(f) = {k} /\ Waiting(f) = {}
      BY <1>0, <1>2, <1>5, <2>5, <3>2, LastIsAll DEF ReceiveFacts
    <3>4. cut[f] = {} /\ packed[f] = {} /\ f \in original
      BY <1>5, <3>1, <3>2, <3>3 DEF InProgress
    <3>5. Len(BlockList(f)) = dirV[f] /\ dirV[f] = arguments[f].size
      <4>1. ~Comp!Discarded(f)
        BY <2>5 DEF ReceiveFacts
      <4>2. arguments[f].content = "tar"
        BY <1>0, <1>2, <1>5, <3>2, <4>1, ListFacts
      <4>. QED
        BY <1>0, <1>2, <1>5, <3>2, <4>2, ListFacts DEF Opened
    <3>6. part[f] = 1 .. arguments[f].size /\ t.nblocks = arguments[f].size
      BY <2>5, <3>3, <3>5 DEF Ids, ReceiveFacts
    <3>7. made = "ok" /\ errors = {FALSE}
      BY <3>4, <3>5, <3>6
    <3>8. target' = [target EXCEPT ![f] = "ok"] /\ tmpdir' = tmpdir \ {f}
      <4>1. \A how \in {"seen", "unseen"} : ~Comp!Fails(f, how)
        BY <2>6, FaultOfOne
      <4>. QED
        BY <2>1, <3>4, <3>7, <4>1
    <3>9. /\ target'[f] = "ok" /\ f \notin tmpdir' /\ blocksOf'[f] = 0
          /\ part'[f] = {} /\ cut'[f] = {} /\ packed'[f] = {}
      BY <1>0, <1>2, <2>1, <3>8 DEF CompTypes
    <3>10. Waiting(f)' = {} /\ AtWriter(f)' = {}
      BY <2>5, <3>3 DEF ReceiveFacts
    <3>. QED
      BY <3>2, <3>9, <3>10 DEF Joined
  <2>7. FileInv(f)'
    <3>1. ~options'.comp
      BY <1>1, <1>5
    <3>. QED
      BY <2>5, <2>6, <3>1 DEF FileInv, ReceiveFacts
  <2>. QED
    BY <2>5, <2>7 DEF ReceiveFacts
<1>. QED
  BY <1>3, <1>4, <1>5

(* The writer ends when everything has, and nothing happens after that.      *)
LEMMA EndStep ==
  ASSUME CompParts, Comp!Next \/ UNCHANGED Comp!vars
  PROVE  CompEnd'
<1>0. CompTypes /\ CompEnd
  BY DEF CompParts
<1>1. CASE UNCHANGED Comp!vars
  BY <1>0, <1>1 DEF CompEnd, Comp!vars
<1>2. CASE writer # "running"
  <2>1. UNCHANGED Comp!vars
    BY <1>2 DEF Comp!Next, Comp!Ended
  <2>. QED
    BY <1>1, <2>1
<1>3. CASE writer = "running" /\ Comp!WriterEnds
  <2>1. /\ argi \in Nat /\ argi <= Files + 1 /\ ~(argi <= Files) /\ Files \in Nat
        /\ tasks = {} /\ written = {} /\ \A w \in Comp!Node : work[w] = Comp!NoTask
        /\ UNCHANGED <<argi, tasks, written, work>>
    BY <1>0, <1>3, CompressorAssumption DEF Comp!WriterEnds, Comp!Reading, CompTypes
  <2>. QED
    BY <2>1 DEF CompEnd
<1>4. CASE writer = "running" /\ Comp!Next /\ ~Comp!WriterEnds
  <2>. DEFINE Runs == writer' = writer \/ writer' = "killed"
  <2>1. Comp!Reader => Runs
    BY DEF Comp!Reader, Comp!Skip, Comp!ReaderFails, Comp!OpenArgument, Comp!ReaddirFails, Comp!SendBlock
  <2>2. (\E w \in Comp!Node : Comp!Worker(w)) => Runs
    BY DEF Comp!Worker, Comp!TakeTask, Comp!Compress, Comp!Decompress, Comp!WorkerKilled
  <2>3. ASSUME Comp!WriterReceives
        PROVE  Runs
    <3>1. PICK t \in written : \/ UNCHANGED writer
                               \/ Comp!Tar(t) \/ Comp!Merge(t)
      BY <2>3 DEF Comp!WriterReceives
    <3>. QED
      BY <3>1 DEF Comp!Tar, Comp!Merge
  <2>4. Runs
    BY <1>4, <2>1, <2>2, <2>3 DEF Comp!Next, Comp!Writer, Comp!Ended, Comp!vars
  <2>. QED
    BY <1>4, <2>4 DEF CompEnd
<1>. QED
  BY <1>1, <1>2, <1>3, <1>4

(* A failing call that is seen.                                              *)
Seen == \E f \in Comp!File : <<f, "seen">> \in faults

(* Whoever sees a call fail notes it.                                        *)
LEMMA NotedStep ==
  ASSUME CompParts, Comp!Next \/ UNCHANGED Comp!vars
  PROVE  Noted'
<1>. DEFINE Quiet == faults' = faults /\ (failed # {} => failed' # {}) /\ (writer = "killed" => writer' = "killed")
            Unseen == \E f : Comp!Fails(f, "unseen") /\ failed' = failed /\ (writer = "killed" => writer' = "killed")
            Note == failed' # {} \/ writer' = "killed"
<1>1. Noted
  BY DEF CompParts
<1>2. ASSUME Quiet
      PROVE  Noted'
  BY <1>1, <1>2 DEF Noted
<1>3. ASSUME NEW f, Comp!Fails(f, "unseen"), failed # {} => failed' # {}, writer = "killed" => writer' = "killed"
      PROVE  Noted'
  <2>1. \A g : <<g, "seen">> \in faults' => <<g, "seen">> \in faults
    BY <1>3 DEF Comp!Fails
  <2>. QED
    BY <1>1, <1>3, <2>1 DEF Noted
<1>4. ASSUME Note
      PROVE  Noted'
  BY <1>4 DEF Noted
<1>5. CASE UNCHANGED Comp!vars
  BY <1>2, <1>5 DEF Comp!vars
<1>6. ASSUME writer = "running", Comp!Reader
      PROVE  Noted'
  <2>1. CASE Comp!ReaderFails
    BY <1>3, <1>4, <1>6, <2>1 DEF Comp!ReaderFails
  <2>2. CASE Comp!ReaddirFails
    BY <1>4, <2>2 DEF Comp!ReaddirFails
  <2>3. CASE Comp!Skip \/ Comp!OpenArgument \/ Comp!SendBlock
    BY <1>2, <2>3 DEF Comp!Skip, Comp!OpenArgument, Comp!SendBlock
  <2>. QED
    BY <1>6, <2>1, <2>2, <2>3 DEF Comp!Reader
<1>7. ASSUME writer = "running", NEW w \in Comp!Node, Comp!Worker(w)
      PROVE  Noted'
  <2>1. CASE Comp!TakeTask(w)
    BY <1>2, <2>1 DEF Comp!TakeTask
  <2>2. CASE Comp!Compress(w)
    <3>1. CASE \E ok \in BOOLEAN : Comp!Write(work[w], ok)
      <4>1. \/ faults' = faults /\ failed' = failed
            \/ Comp!Fails(work[w].file, "unseen") /\ failed' = failed
            \/ failed' = failed \cup {"worker"}
        BY <3>1 DEF Comp!Write, Comp!Works
      <4>. QED
        BY <1>2, <1>3, <1>4, <1>7, <4>1
    <3>2. CASE failed' = failed \cup {"worker"}
      BY <1>4, <3>2
    <3>. QED
      BY <2>2, <3>1, <3>2 DEF Comp!Compress
  <2>3. CASE Comp!Decompress(w)
    <3>1. \/ faults' = faults /\ failed' = failed
          \/ Comp!Fails(work[w].file, "unseen") /\ failed' = failed
          \/ failed' = failed \cup {"worker"}
      BY <2>3 DEF Comp!Decompress, Comp!DecompressSmall, Comp!DecompressPart, Comp!Works
    <3>. QED
      BY <1>2, <1>3, <1>4, <1>7, <3>1
  <2>4. CASE Comp!WorkerKilled(w)
    BY <1>4, <2>4 DEF Comp!WorkerKilled
  <2>. QED
    BY <1>7, <2>1, <2>2, <2>3, <2>4 DEF Comp!Worker
<1>8. ASSUME writer = "running", Comp!WriterReceives
      PROVE  Noted'
  <2>1. PICK t \in written : \/ UNCHANGED <<faults, failed, writer>>
                             \/ Comp!Tar(t) \/ Comp!Merge(t)
    BY <1>8 DEF Comp!WriterReceives
  <2>2. CASE UNCHANGED <<faults, failed, writer>>
    BY <1>2, <2>2
  <2>3. CASE Comp!Tar(t)
    BY <1>2, <1>4, <2>3 DEF Comp!Tar, Comp!Works
  <2>4. CASE Comp!Merge(t)
    <3>1. \/ faults' = faults /\ failed' \in {failed, failed \cup {"writer"}}
          \/ Comp!Fails(t.file, "unseen") /\ failed' \in {failed, failed \cup {"writer"}}
          \/ failed' = failed \cup {"writer"}
          \/ writer' = "killed"
      BY <2>4 DEF Comp!Merge, Comp!Merged, Comp!Works
    <3>. QED
      BY <1>2, <1>3, <1>4, <1>8, <3>1
  <2>. QED
    BY <2>1, <2>2, <2>3, <2>4
<1>9. CASE Comp!WriterEnds
  BY <1>2, <1>9 DEF Comp!WriterEnds
<1>. QED
  BY <1>5, <1>6, <1>7, <1>8, <1>9 DEF Comp!Next, Comp!Writer, Comp!Ended

(* Every step of ffc_farm.                                                   *)
LEMMA CompStep ==
  ASSUME CompParts, Comp!Next \/ UNCHANGED Comp!vars
  PROVE  CompParts'
<1>. DEFINE Kept == CompTypes' /\ BlockOnce' /\ \A f \in Comp!File : FileInv(f)'
<1>1. ASSUME Comp!Reader
      PROVE  Kept
  BY <1>1, SkipStep, OpenStep, ReaddirStep, SendStep DEF Comp!Reader
<1>2. ASSUME NEW w \in Comp!Node, Comp!Worker(w)
      PROVE  Kept
  BY <1>2, TakeStep, CompressStep, DecompressStep, KilledStep DEF Comp!Worker
<1>3. ASSUME Comp!WriterReceives
      PROVE  Kept
  BY <1>3, ReceiveStep
<1>4. ASSUME Comp!WriterEnds \/ UNCHANGED Comp!vars
      PROVE  Kept
  <2>1. UNCHANGED <<options, arguments, faults, argi, blk, listed, tasks, work, written, blocksOf,
                    dirV, part, cut, packed, target, original, tmpdir>>
    BY <1>4 DEF Comp!WriterEnds, Comp!vars, Comp!disk
  <2>2. \A f : Comp!Untroubled(f)' <=> Comp!Untroubled(f)
    BY <2>1, NoFault
  <2>. QED
    BY <2>1, <2>2, CompQuiet
<1>5. Kept
  BY <1>1, <1>2, <1>3, <1>4 DEF Comp!Next, Comp!Writer, Comp!Ended
<1>. QED
  BY <1>5, EndStep, NotedStep DEF CompParts

(* Nothing has been opened.                                                  *)
LEMMA CompStart ==
  ASSUME Comp!Init
  PROVE  CompParts
<1>. USE DEF Comp!Init
<1>1. Unsent = {} /\ Away \subseteq {Comp!NoTask}
  BY DEF Unsent, Away
<1>2. CompTypes
  <2>1. argi \in 1 .. Files + 1
    BY CompressorAssumption
  <2>. QED
    BY <2>1 DEF CompTypes
<1>3. BlockOnce
  BY <1>1 DEF BlockOnce
<1>4. ASSUME NEW f \in Comp!File
      PROVE  FileInv(f)
  <2>1. \A k \in Ids(f) : BlockList(f)[k] # Comp!NoTask
    BY <1>2, ListFacts
  <2>2. Waiting(f) = {} /\ AtWriter(f) = {}
    BY <1>1, <2>1 DEF Waiting, AtWriter
  <2>3. Fresh(f) /\ Comp!Untroubled(f)
    BY DEF Fresh, Comp!File, Comp!Untroubled
  <2>. QED
    BY <2>2, <2>3 DEF FileInv, Untouched
<1>. QED
  BY <1>2, <1>3, <1>4 DEF CompParts, CompEnd, Noted

(* The files are intact.                                                     *)
LEMMA CompFacts ==
  ASSUME CompParts
  PROVE  Comp!FilesIntact
<1>0. CompTypes /\ CompEnd /\ Noted /\ \A f \in Comp!File : FileInv(f)
  BY DEF CompParts
<1>1. ASSUME NEW f \in Comp!File, options.comp \/ Comp!Untroubled(f), f \notin original
      PROVE  target[f] = "ok"
  BY <1>0, <1>1 DEF FileInv, Untouched, Single, InProgress, Joined
<1>2. ASSUME writer = "end", NEW f \in Comp!File, Comp!Untroubled(f)
      PROVE  Comp!Finished(f)
  <2>1. /\ argi = Files + 1 /\ tasks = {} /\ written = {} /\ listed = <<>>
        /\ \A w \in Comp!Node : work[w] = Comp!NoTask
    BY <1>0, <1>2, CompressorAssumption DEF CompEnd, CompTypes, Comp!File
  <2>2. Away \subseteq {Comp!NoTask}
    BY <2>1 DEF Away, Unsent
  <2>3. Waiting(f) = {} /\ AtWriter(f) = {}
    BY <1>0, <2>1, <2>2, ListFacts DEF Waiting, AtWriter
  <2>4. ~Fresh(f)
    BY <2>1, CompressorAssumption DEF Fresh, Comp!File
  <2>5. CASE Untouched(f) /\ Comp!Discarded(f)
    BY <2>5 DEF Untouched, Comp!Finished
  <2>6. CASE Single(f)
    BY <1>2, <2>3, <2>6 DEF Single, Comp!Finished
  <2>7. CASE Joined(f)
    BY <1>2, <2>7 DEF Joined, Comp!Finished
  <2>8. CASE InProgress(f)
    BY <1>2, <2>3, <2>8 DEF InProgress
  <2>. QED
    BY <1>0, <1>2, <2>4, <2>5, <2>6, <2>7, <2>8 DEF FileInv
<1>3. Comp!FaultsAreLocal
  BY <1>1, <1>2 DEF Comp!FaultsAreLocal
<1>4. Comp!CompressionKeeps
  BY <1>1 DEF Comp!CompressionKeeps, Comp!comp
<1>5. Comp!DoneMeansComplete
  <2>1. SUFFICES ASSUME Comp!Done, NEW f \in Comp!File, <<f, "unseen">> \notin faults
                 PROVE  Comp!Finished(f)
    BY DEF Comp!DoneMeansComplete
  <2>2. writer = "end" /\ failed = {}
    BY <2>1 DEF Comp!Done
  <2>3. Comp!Untroubled(f)
    BY <1>0, <2>1, <2>2 DEF Noted, Comp!Untroubled
  <2>. QED
    BY <1>2, <2>2, <2>3
<1>. QED
  BY <1>3, <1>4, <1>5 DEF Comp!FilesIntact
-----------------------------------------------------------------------------
(* compdecomp.  What is below an entry: the least set with it that has the   *)
(* entries of its directories.                                               *)
Downward(S) == \A d \in S \cap Walk!Directory : \A i \in DOMAIN Tree[d] : Tree[d][i] \in S
Below(e) == {x \in Walk!Entry : \A S \in SUBSET Walk!Entry : e \in S /\ Downward(S) => x \in S}

(* What a call of walkDir, and main, have before them.                       *)
BeforeCall(c) == UNION {Below(Tree[c.dir][j]) : j \in c.next .. Len(Tree[c.dir])}
BeforeMain(a) == UNION {Below(a[k]) : k \in DOMAIN a}

WalkCall == [dir : Walk!Directory, next : Nat \ {0}, error : BOOLEAN]
HomeEntry == {Tree[Home][i] : i \in DOMAIN Tree[Home]}

(* An original may go for one of these outputs.                              *)
Output == {"none", "ok", "bad", "cut"}
Good(r) == r = "ok" \/ (~walkOptions.compress /\ r = "cut")

WalkTypes ==
  /\ arg \in Seq(HomeEntry) /\ \A i, j \in DOMAIN arg : arg[i] = arg[j] => i = j
  /\ calls \in Seq(WalkCall)
  /\ output \in [Walk!Plain -> Output] /\ originals \subseteq Walk!Plain

(* Nothing comes twice.                                                      *)
ComesOnce(a, cs) ==
  /\ \A i \in DOMAIN cs : BeforeCall(cs[i]) \cap BeforeMain(a) = {}
  /\ \A i, j \in DOMAIN cs : i # j => BeforeCall(cs[i]) \cap BeforeCall(cs[j]) = {}

(* A set of files that do not come any more.                                 *)
Gone(S, a, cs) ==
  /\ S \cap BeforeMain(a) = {}
  /\ \A i \in DOMAIN cs : S \cap BeforeCall(cs[i]) = {}

WalkParts ==
  /\ WalkTypes /\ ComesOnce(arg, calls) /\ Gone(Walk!Plain \ originals, arg, calls)
  /\ \A f \in Walk!Plain \ originals : Good(output[f])
WalkInv == network = "walk" => WalkParts

(* Below an entry is the least set with it that has the entries of its       *)
(* directories.                                                              *)
LEMMA BelowLeast ==
  ASSUME NEW e \in Walk!Entry
  PROVE  /\ e \in Below(e) /\ Below(e) \subseteq Walk!Entry /\ Downward(Below(e))
         /\ \A S \in SUBSET Walk!Entry : e \in S /\ Downward(S) => Below(e) \subseteq S
<1>1. e \in Below(e) /\ Below(e) \subseteq Walk!Entry
  BY DEF Below
<1>2. ASSUME NEW d \in Below(e) \cap Walk!Directory, NEW i \in DOMAIN Tree[d]
      PROVE  Tree[d][i] \in Below(e)
  <2>1. Tree[d][i] \in Walk!Entry
    BY DEF Walk!Entry, Walk!ToSet
  <2>2. ASSUME NEW S \in SUBSET Walk!Entry, e \in S, Downward(S)
        PROVE  Tree[d][i] \in S
    <3>1. d \in S
      BY <2>2 DEF Below
    <3>. QED
      BY <2>2, <3>1 DEF Downward
  <2>. QED
    BY <2>1, <2>2 DEF Below
<1>3. Downward(Below(e))
  BY <1>2 DEF Downward
<1>4. \A S \in SUBSET Walk!Entry : e \in S /\ Downward(S) => Below(e) \subseteq S
  BY DEF Below
<1>. QED
  BY <1>1, <1>3, <1>4

(* A directory's entries.                                                    *)
LEMMA EntryOf ==
  ASSUME NEW d \in Walk!Directory, NEW i \in DOMAIN Tree[d]
  PROVE  /\ Tree[d][i] \in Walk!Entry
         /\ \A e \in Walk!Directory : \A j \in DOMAIN Tree[e] : Tree[d][i] = Tree[e][j] => d = e /\ i = j
BY WalkAssumption DEF Walk!Entry, Walk!ToSet, Walk!Directory

(* Nothing is below a file.                                                  *)
LEMMA BelowFile ==
  ASSUME NEW f \in Walk!Plain
  PROVE  f \in Walk!Entry /\ Below(f) = {f}
<1>1. f \in Walk!Entry /\ f \notin Walk!Directory
  BY DEF Walk!Plain
<1>2. Downward({f})
  BY <1>1 DEF Downward
<1>3. Below(f) \subseteq {f}
  BY <1>1, <1>2, BelowLeast
<1>. QED
  BY <1>1, <1>3, BelowLeast

(* What is below an entry of a directory is below the directory.             *)
LEMMA BelowEntry ==
  ASSUME NEW d \in Walk!Directory \cap Walk!Entry, NEW i \in DOMAIN Tree[d]
  PROVE  Below(Tree[d][i]) \subseteq Below(d)
<1>1. Tree[d][i] \in Walk!Entry
  BY EntryOf
<1>2. Tree[d][i] \in Below(d)
  BY BelowLeast DEF Downward
<1>. QED
  BY <1>1, <1>2, BelowLeast

(* What is below a directory is below one of its entries.                    *)
LEMMA BelowOne ==
  ASSUME NEW d \in Walk!Directory \cap Walk!Entry, NEW x \in Below(d), x # d
  PROVE  \E i \in DOMAIN Tree[d] : x \in Below(Tree[d][i])
<1>. DEFINE S == {d} \cup UNION {Below(Tree[d][i]) : i \in DOMAIN Tree[d]}
<1>1. \A i \in DOMAIN Tree[d] : /\ Tree[d][i] \in Walk!Entry /\ Tree[d][i] \in Below(Tree[d][i])
                                /\ Below(Tree[d][i]) \subseteq Walk!Entry
                                /\ Downward(Below(Tree[d][i]))
  BY EntryOf, BelowLeast
<1>2. S \in SUBSET Walk!Entry
  BY <1>1
<1>3. ASSUME NEW y \in S \cap Walk!Directory, NEW j \in DOMAIN Tree[y]
      PROVE  Tree[y][j] \in S
  <2>1. CASE y = d
    BY <1>1, <2>1
  <2>2. CASE y # d
    <3>1. PICK i \in DOMAIN Tree[d] : y \in Below(Tree[d][i])
      BY <2>2
    <3>2. Tree[y][j] \in Below(Tree[d][i])
      BY <1>1, <3>1 DEF Downward
    <3>. QED
      BY <3>2
  <2>. QED
    BY <2>1, <2>2
<1>4. Downward(S)
  BY <1>3 DEF Downward
<1>5. Below(d) \subseteq S
  BY <1>2, <1>4, BelowLeast
<1>. QED
  BY <1>5

(* The directory of an entry that is below another is below that, too.       *)
LEMMA BelowParent ==
  ASSUME NEW e \in Walk!Entry, NEW d \in Walk!Directory, NEW i \in DOMAIN Tree[d],
         Tree[d][i] \in Below(e), Tree[d][i] # e
  PROVE  d \in Below(e)
<1>. DEFINE S == Below(e) \ {Tree[d][i]}
<1>1. S \in SUBSET Walk!Entry /\ e \in S /\ ~(Below(e) \subseteq S)
  BY BelowLeast
<1>2. ~Downward(S)
  BY <1>1, BelowLeast
<1>3. PICK x \in S \cap Walk!Directory : \E j \in DOMAIN Tree[x] : Tree[x][j] \notin S
  BY <1>2 DEF Downward
<1>4. PICK j \in DOMAIN Tree[x] : Tree[x][j] \notin S
  BY <1>3
<1>5. Tree[x][j] \in Below(e)
  BY BelowLeast DEF Downward
<1>6. Tree[x][j] = Tree[d][i]
  BY <1>4, <1>5
<1>. QED
  BY <1>6, EntryOf

(* No directory is below itself.                                             *)
LEMMA NotBelowItself ==
  ASSUME NEW d \in Walk!Directory, NEW i \in DOMAIN Tree[d]
  PROVE  d \notin Below(Tree[d][i])
<1>. SUFFICES ASSUME d \in Below(Tree[d][i]) PROVE FALSE
  OBVIOUS
<1>. DEFINE c == Tree[d][i]
            S == {x \in Below(c) \cap Walk!Directory : d \in Below(x)}
<1>1. c \in Walk!Entry /\ c \in Below(c) /\ d \in Walk!Entry /\ d \in Below(d)
  BY EntryOf, BelowLeast
<1>2. \A y \in Walk!Entry : d \in Below(y) => y \in Walk!Directory
  <2>1. ASSUME NEW y \in Walk!Entry, d \in Below(y), y \notin Walk!Directory
        PROVE  FALSE
    <3>1. Below(y) = {y}
      BY <2>1, BelowFile DEF Walk!Plain
    <3>. QED
      BY <2>1, <3>1
  <2>. QED
    BY <2>1
<1>3. c \in S /\ d \in S
  BY <1>1, <1>2
<1>4. S \in SUBSET DOMAIN Tree /\ S # {}
  BY <1>3 DEF Walk!Directory
<1>5. PICK x \in S : \A j \in DOMAIN Tree[x] : Tree[x][j] \notin S
  BY <1>4, WalkAssumption
<1>6. x # d
  BY <1>3, <1>5
<1>7. x \in Walk!Directory \cap Walk!Entry /\ x \in Below(c) /\ d \in Below(x)
  BY <1>1, BelowLeast
<1>8. PICK j \in DOMAIN Tree[x] : d \in Below(Tree[x][j])
  BY <1>6, <1>7, BelowOne
<1>9. Tree[x][j] \in Walk!Entry /\ Tree[x][j] \in Below(c)
  BY <1>1, <1>7, EntryOf, BelowLeast DEF Downward
<1>. QED
  BY <1>2, <1>5, <1>8, <1>9

(* Nothing is below two entries of a directory.                              *)
LEMMA BelowApart ==
  ASSUME NEW d \in Walk!Directory, NEW i \in DOMAIN Tree[d], NEW j \in DOMAIN Tree[d], i # j
  PROVE  Below(Tree[d][i]) \cap Below(Tree[d][j]) = {}
<1>. DEFINE b == Tree[d][i]
            c == Tree[d][j]
            T == Below(c) \ Below(b)
<1>1. /\ b \in Walk!Entry /\ c \in Walk!Entry /\ b # c
      /\ d \notin Below(b) /\ d \notin Below(c)
  BY EntryOf, NotBelowItself
<1>2. c \notin Below(b)
  BY <1>1, BelowParent
<1>3. T \in SUBSET Walk!Entry /\ c \in T
  BY <1>1, <1>2, BelowLeast
<1>4. ASSUME NEW x \in T \cap Walk!Directory, NEW k \in DOMAIN Tree[x]
      PROVE  Tree[x][k] \in T
  <2>1. Tree[x][k] \in Below(c)
    BY <1>1, BelowLeast DEF Downward
  <2>2. Tree[x][k] # b
    BY <1>1, EntryOf
  <2>3. Tree[x][k] \notin Below(b)
    BY <1>1, <2>2, BelowParent
  <2>. QED
    BY <2>1, <2>3
<1>5. Downward(T)
  BY <1>4 DEF Downward
<1>6. Below(c) \subseteq T
  BY <1>1, <1>3, <1>5, BelowLeast
<1>. QED
  BY <1>6

(* The first and the last elements of a sequence.                            *)
LEMMA FrontOf ==
  ASSUME NEW R, NEW q \in Seq(R), q # <<>>
  PROVE  /\ Walk!Front(q) \in Seq(R) /\ Len(Walk!Front(q)) = Len(q) - 1
         /\ Len(q) \in Nat \ {0} /\ DOMAIN q = 1 .. Len(q)
         /\ DOMAIN Walk!Front(q) = 1 .. Len(q) - 1
         /\ \A k \in 1 .. Len(q) - 1 : Walk!Front(q)[k] = q[k]
         /\ Walk!Last(q) = q[Len(q)] /\ q[Len(q)] \in R
<1>1. Len(q) \in Nat \ {0} /\ DOMAIN q = 1 .. Len(q) /\ q[Len(q)] \in R
  OBVIOUS
<1>2. PICK n \in Nat : n = Len(q) - 1
  <2>1. Len(q) - 1 \in Nat
    BY <1>1
  <2>. QED
    BY <2>1
<1>3. PICK front : front = SubSeq(q, 1, n)
  OBVIOUS
<1>4. n <= Len(q)
  BY <1>1, <1>2
<1>5. front \in Seq(R) /\ Len(front) = n /\ DOMAIN front = 1 .. n /\ \A k \in 1 .. n : front[k] = q[k]
  BY <1>1, <1>3, <1>4
<1>6. Walk!Front(q) = front
  BY <1>2, <1>3 DEF Walk!Front
<1>. QED
  BY <1>1, <1>2, <1>5, <1>6 DEF Walk!Last

(* The last element is replaced.                                             *)
LEMMA TopSet ==
  ASSUME NEW R, NEW q \in Seq(R), q # <<>>, NEW r \in R
  PROVE  /\ Walk!SetTop(q, r) \in Seq(R) /\ Len(Walk!SetTop(q, r)) = Len(q)
         /\ DOMAIN Walk!SetTop(q, r) = DOMAIN q
         /\ \A k \in DOMAIN q : Walk!SetTop(q, r)[k] = IF k = Len(q) THEN r ELSE q[k]
<1>1. PICK front : front = Walk!Front(q)
  OBVIOUS
<1>2. /\ front \in Seq(R) /\ Len(front) = Len(q) - 1 /\ Len(q) \in Nat \ {0} /\ DOMAIN q = 1 .. Len(q)
      /\ \A k \in 1 .. Len(q) - 1 : front[k] = q[k]
  BY <1>1, FrontOf
<1>3. PICK all : all = Append(front, r)
  OBVIOUS
<1>4. PICK n \in Nat : n = Len(front)
  BY <1>2
<1>5. /\ all \in Seq(R) /\ Len(all) = n + 1 /\ DOMAIN all = 1 .. n + 1
      /\ all[n + 1] = r /\ \A k \in 1 .. n : all[k] = front[k]
  BY <1>2, <1>3, <1>4
<1>6. Len(q) = n + 1 /\ \A k \in 1 .. n : all[k] = q[k]
  BY <1>2, <1>4, <1>5
<1>7. \A k \in 1 .. n + 1 : k = n + 1 \/ k \in 1 .. n
  OBVIOUS
<1>8. Walk!SetTop(q, r) = all
  BY <1>1, <1>3 DEF Walk!SetTop
<1>. QED
  BY <1>2, <1>5, <1>6, <1>7, <1>8

(* An element is appended.                                                   *)
LEMMA Appended ==
  ASSUME NEW R, NEW q \in Seq(R), NEW r \in R
  PROVE  /\ Append(q, r) \in Seq(R) /\ Len(q) \in Nat /\ DOMAIN q = 1 .. Len(q)
         /\ DOMAIN Append(q, r) = 1 .. Len(q) + 1
         /\ Append(q, r)[Len(q) + 1] = r /\ \A k \in DOMAIN q : Append(q, r)[k] = q[k]
OBVIOUS

(* A call takes its next entry.                                              *)
LEMMA NextEntry ==
  ASSUME NEW c \in WalkCall, c.next <= Len(Tree[c.dir]),
         NEW b \in WalkCall, b.dir = c.dir, b.next = c.next + 1,
         NEW e, e = Tree[c.dir][c.next]
  PROVE  /\ e \in Walk!Entry /\ BeforeCall(b) \subseteq BeforeCall(c)
         /\ Below(e) \subseteq BeforeCall(c) /\ Below(e) \cap BeforeCall(b) = {}
<1>. DEFINE d == c.dir
            n == c.next
            l == Len(Tree[d])
<1>1. d \in Walk!Directory /\ n \in Nat \ {0}
  BY DEF WalkCall
<1>2. l \in Nat /\ DOMAIN Tree[d] = 1 .. l
  <2>1. Tree[d] \in Seq(Nat)
    BY <1>1, WalkAssumption DEF Walk!Directory
  <2>. QED
    BY <2>1
<1>3. n <= l /\ b.dir = d /\ b.next = n + 1 /\ e = Tree[d][n]
  OBVIOUS
<1>4. /\ BeforeCall(c) = UNION {Below(Tree[d][j]) : j \in n .. l}
      /\ BeforeCall(b) = UNION {Below(Tree[d][j]) : j \in n + 1 .. l}
  BY DEF BeforeCall
<1>. HIDE DEF d, n, l
<1>5. n \in DOMAIN Tree[d] /\ n \in n .. l /\ \A j \in n + 1 .. l : j \in DOMAIN Tree[d] /\ j # n /\ j \in n .. l
  BY <1>1, <1>2, <1>3
<1>6. \A j \in n + 1 .. l : Below(Tree[d][n]) \cap Below(Tree[d][j]) = {}
  BY <1>1, <1>5, BelowApart
<1>7. e \in Walk!Entry
  BY <1>1, <1>3, <1>5, EntryOf
<1>8. BeforeCall(b) \subseteq BeforeCall(c) /\ Below(e) \subseteq BeforeCall(c)
  BY <1>3, <1>4, <1>5
<1>9. Below(e) \cap BeforeCall(b) = {}
  <2>1. ASSUME NEW x \in Below(e), x \in BeforeCall(b)
        PROVE  FALSE
    <3>1. PICK j \in n + 1 .. l : x \in Below(Tree[d][j])
      BY <1>4, <2>1
    <3>. QED
      BY <1>3, <1>6, <2>1, <3>1
  <2>. QED
    BY <2>1
<1>. QED
  BY <1>7, <1>8, <1>9

(* A new call has the directory's entries before it.                         *)
LEMMA NewCall ==
  ASSUME NEW d \in Walk!Directory \cap Walk!Entry
  PROVE  LET c == [dir |-> d, next |-> 1, error |-> FALSE]
         IN  c \in WalkCall /\ BeforeCall(c) \subseteq Below(d)
<1>. DEFINE c == [dir |-> d, next |-> 1, error |-> FALSE]
<1>1. c \in WalkCall /\ c.dir = d /\ c.next = 1
  BY DEF WalkCall
<1>2. DOMAIN Tree[d] = 1 .. Len(Tree[d])
  <2>1. Tree[d] \in Seq(Nat)
    BY WalkAssumption DEF Walk!Directory
  <2>. QED
    BY <2>1
<1>3. BeforeCall(c) = UNION {Below(Tree[d][j]) : j \in DOMAIN Tree[d]}
  BY <1>2 DEF BeforeCall
<1>. HIDE DEF c
<1>4. BeforeCall(c) \subseteq Below(d)
  <2>1. \A j \in DOMAIN Tree[d] : Below(Tree[d][j]) \subseteq Below(d)
    BY BelowEntry
  <2>. QED
    BY <1>3, <2>1
<1>. QED
  BY <1>1, <1>4 DEF c

(* main takes its last argument.                                             *)
LEMMA LastArgument ==
  ASSUME WalkTypes, arg # <<>>, NEW b, b = Walk!Front(arg), NEW e, e = Walk!Last(arg)
  PROVE  /\ b \in Seq(HomeEntry) /\ \A i, j \in DOMAIN b : b[i] = b[j] => i = j
         /\ e \in Walk!Entry /\ BeforeMain(b) \subseteq BeforeMain(arg)
         /\ Below(e) \subseteq BeforeMain(arg) /\ Below(e) \cap BeforeMain(b) = {}
<1>1. arg \in Seq(HomeEntry) /\ \A i, j \in DOMAIN arg : arg[i] = arg[j] => i = j
  BY DEF WalkTypes
<1>2. PICK n \in Nat : n = Len(arg) - 1
  <2>1. Len(arg) - 1 \in Nat
    BY <1>1, FrontOf
  <2>. QED
    BY <2>1
<1>3. /\ b \in Seq(HomeEntry) /\ DOMAIN arg = 1 .. n + 1 /\ DOMAIN b = 1 .. n
      /\ \A k \in 1 .. n : b[k] = arg[k]
      /\ e = arg[n + 1] /\ e \in HomeEntry
  <2>1. Len(arg) = n + 1
    BY <1>1, <1>2, FrontOf
  <2>. QED
    BY <1>1, <1>2, <2>1, FrontOf
<1>4. n + 1 \in 1 .. n + 1 /\ \A k \in 1 .. n : k \in 1 .. n + 1 /\ k # n + 1
  OBVIOUS
<1>5. \A i, j \in DOMAIN b : b[i] = b[j] => i = j
  BY <1>1, <1>3, <1>4
<1>6. e \in Walk!Entry
  BY <1>3, EntryOf, WalkAssumption DEF HomeEntry, Walk!Directory
<1>7. BeforeMain(b) \subseteq BeforeMain(arg) /\ Below(e) \subseteq BeforeMain(arg)
  BY <1>3, <1>4 DEF BeforeMain
<1>8. ASSUME NEW k \in 1 .. n
      PROVE  Below(e) \cap Below(b[k]) = {}
  <2>1. e # b[k] /\ b[k] \in HomeEntry
    BY <1>1, <1>3, <1>4
  <2>2. PICK i \in DOMAIN Tree[Home], j \in DOMAIN Tree[Home] : e = Tree[Home][i] /\ b[k] = Tree[Home][j]
    BY <1>3, <2>1 DEF HomeEntry
  <2>. QED
    BY <2>1, <2>2, BelowApart, WalkAssumption DEF Walk!Directory
<1>9. Below(e) \cap BeforeMain(b) = {}
  BY <1>3, <1>8 DEF BeforeMain
<1>. QED
  BY <1>3, <1>5, <1>6, <1>7, <1>9

(* Less is left.                                                             *)
LEMMA LessLeft ==
  ASSUME NEW S, NEW a, NEW b, NEW cs, NEW ds, ComesOnce(a, cs), Gone(S, a, cs),
         BeforeMain(b) \subseteq BeforeMain(a), DOMAIN ds \subseteq DOMAIN cs,
         \A i \in DOMAIN ds : BeforeCall(ds[i]) \subseteq BeforeCall(cs[i])
  PROVE  ComesOnce(b, ds) /\ Gone(S, b, ds)
<1>1. ComesOnce(b, ds)
  BY DEF ComesOnce
<1>. QED
  BY <1>1 DEF Gone

(* A directory is entered.                                                   *)
LEMMA Entered ==
  ASSUME NEW S, NEW a, NEW cs \in Seq(WalkCall), ComesOnce(a, cs), Gone(S, a, cs),
         NEW X, Gone(X, a, cs), S \cap X = {}, NEW c \in WalkCall, BeforeCall(c) \subseteq X
  PROVE  /\ Append(cs, c) \in Seq(WalkCall)
         /\ ComesOnce(a, Append(cs, c)) /\ Gone(S, a, Append(cs, c))
<1>. DEFINE ds == Append(cs, c)
<1>1. PICK n \in Nat : n = Len(cs)
  BY Appended
<1>2. /\ ds \in Seq(WalkCall) /\ DOMAIN ds = 1 .. n + 1 /\ ds[n + 1] = c
      /\ DOMAIN cs = 1 .. n /\ \A k \in 1 .. n : ds[k] = cs[k]
  BY <1>1, Appended
<1>. HIDE DEF ds
<1>3. \A k \in DOMAIN ds : (k \in DOMAIN cs /\ ds[k] = cs[k]) \/ (k = n + 1 /\ ds[k] = c)
  BY <1>2
<1>4. \A i \in DOMAIN ds : BeforeCall(ds[i]) \cap BeforeMain(a) = {} /\ S \cap BeforeCall(ds[i]) = {}
  BY <1>3 DEF ComesOnce, Gone
<1>5. \A i \in DOMAIN cs : BeforeCall(cs[i]) \cap BeforeCall(c) = {}
  BY DEF Gone
<1>6. ASSUME NEW i \in DOMAIN ds, NEW j \in DOMAIN ds, i # j
      PROVE  BeforeCall(ds[i]) \cap BeforeCall(ds[j]) = {}
  <2>1. CASE i \in DOMAIN cs /\ j \in DOMAIN cs
    BY <1>2, <1>6, <2>1 DEF ComesOnce
  <2>2. CASE i \in DOMAIN cs /\ j = n + 1
    BY <1>2, <1>5, <2>2
  <2>3. CASE i = n + 1 /\ j \in DOMAIN cs
    BY <1>2, <1>5, <2>3
  <2>. QED
    BY <1>3, <1>6, <2>1, <2>2, <2>3
<1>. QED
  BY <1>2, <1>4, <1>6 DEF ComesOnce, Gone, ds

(* A call of walkDir is over: the call before it may have an error.          *)
Dropped ==
  LET rest == Walk!Front(calls) IN
  \/ calls' = rest
  \/ rest # <<>> /\ calls' = Walk!SetTop(rest, [Walk!Last(rest) EXCEPT !.error = TRUE])

(* What the calls before it have before them is the same.                    *)
LEMMA DropStep ==
  ASSUME WalkParts, calls # <<>>, Dropped, UNCHANGED <<arg, output, originals, walkOptions>>
  PROVE  WalkParts'
<1>0. WalkTypes /\ ComesOnce(arg, calls) /\ Gone(Walk!Plain \ originals, arg, calls)
  BY DEF WalkParts
<1>1. PICK rest : rest = Walk!Front(calls)
  OBVIOUS
<1>2. /\ rest \in Seq(WalkCall) /\ DOMAIN rest \subseteq DOMAIN calls
      /\ \A k \in DOMAIN rest : rest[k] = calls[k]
  <2>1. calls \in Seq(WalkCall)
    BY <1>0 DEF WalkTypes
  <2>2. Len(calls) \in Nat \ {0} /\ DOMAIN calls = 1 .. Len(calls) /\ DOMAIN rest = 1 .. Len(calls) - 1
        /\ rest \in Seq(WalkCall) /\ \A k \in 1 .. Len(calls) - 1 : rest[k] = calls[k]
    BY <1>1, <2>1, FrontOf
  <2>3. 1 .. Len(calls) - 1 \subseteq 1 .. Len(calls)
    BY <2>2
  <2>. QED
    BY <2>2, <2>3
<1>3. /\ calls' \in Seq(WalkCall) /\ DOMAIN calls' \subseteq DOMAIN calls
      /\ \A k \in DOMAIN calls' : BeforeCall(calls'[k]) = BeforeCall(calls[k])
  <2>1. CASE calls' = rest
    BY <1>2, <2>1
  <2>2. CASE rest # <<>> /\ calls' = Walk!SetTop(rest, [Walk!Last(rest) EXCEPT !.error = TRUE])
    <3>1. PICK r : r = [Walk!Last(rest) EXCEPT !.error = TRUE]
      OBVIOUS
    <3>2. Walk!Last(rest) = rest[Len(rest)] /\ rest[Len(rest)] \in WalkCall
      BY <1>2, <2>2, FrontOf
    <3>3. r \in WalkCall /\ r.dir = rest[Len(rest)].dir /\ r.next = rest[Len(rest)].next
      BY <3>1, <3>2 DEF WalkCall
    <3>4. BeforeCall(r) = BeforeCall(rest[Len(rest)])
      BY <3>3 DEF BeforeCall
    <3>5. /\ calls' \in Seq(WalkCall) /\ DOMAIN calls' = DOMAIN rest
          /\ \A k \in DOMAIN rest : calls'[k] = IF k = Len(rest) THEN r ELSE rest[k]
      <4>1. PICK ds : ds = Walk!SetTop(rest, r)
        OBVIOUS
      <4>2. /\ ds \in Seq(WalkCall) /\ DOMAIN ds = DOMAIN rest
            /\ \A k \in DOMAIN rest : ds[k] = IF k = Len(rest) THEN r ELSE rest[k]
        BY <1>2, <2>2, <3>3, <4>1, TopSet
      <4>3. calls' = ds
        BY <2>2, <3>1, <4>1
      <4>. QED
        BY <4>2, <4>3
    <3>. QED
      BY <1>2, <3>4, <3>5
  <2>. QED
    BY <1>1, <2>1, <2>2 DEF Dropped
<1>4. WalkTypes'
  BY <1>0, <1>3 DEF WalkTypes
<1>5. ComesOnce(arg, calls') /\ Gone(Walk!Plain \ originals, arg, calls')
  BY <1>0, <1>3, LessLeft
<1>. QED
  BY <1>4, <1>5 DEF WalkParts, Good

(* doWork on a file: what is removed has a complete output.                  *)
LEMMA FileDone ==
  ASSUME WalkParts, NEW f \in originals, NEW r \in Output, walkOptions' = walkOptions,
         output' = [output EXCEPT ![f] = r],
         originals' = originals \/ (originals' = originals \ {f} /\ Good(r))
  PROVE  /\ output' \in [Walk!Plain -> Output] /\ originals' \subseteq Walk!Plain
         /\ Walk!Plain \ originals' \subseteq (Walk!Plain \ originals) \cup {f}
         /\ \A g \in Walk!Plain \ originals' : Good(output[g])'
<1>1. /\ output \in [Walk!Plain -> Output] /\ originals \subseteq Walk!Plain
      /\ \A g \in Walk!Plain \ originals : Good(output[g])
  BY DEF WalkParts, WalkTypes
<1>2. \A g \in Walk!Plain \ originals' :
        \/ output'[g] = output[g] /\ g \in Walk!Plain \ originals
        \/ output'[g] = r /\ Good(r)
  BY <1>1
<1>. QED
  BY <1>1, <1>2 DEF Good

(* How compressFile and decompressFile end.                                  *)
LEMMA Outcomes ==
  ASSUME NEW o \in IF walkOptions.compress THEN Walk!compressFile ELSE Walk!decompressFile
  PROVE  o.output \in Output /\ o.ok \in BOOLEAN /\ (Walk!MayRemove(o) => Good(o.output))
<1>1. \E a \in Output, b \in {TRUE, FALSE}, c \in {TRUE, FALSE} :
        o = Walk!Outcome(a, b, c) /\ (walkOptions.compress => a # "cut")
  <2>1. CASE walkOptions.compress
    <3>1. o = Walk!Outcome("ok", TRUE, FALSE) \/ o = Walk!Outcome("none", FALSE, TRUE)
          \/ \E a \in {"none", "bad"} : o = Walk!Outcome(a, TRUE, TRUE)
      BY <2>1 DEF Walk!compressFile
    <3>. QED
      BY <3>1 DEF Output
  <2>2. CASE ~walkOptions.compress
    <3>1. o = Walk!Outcome("ok", TRUE, FALSE) \/ o = Walk!Outcome("cut", TRUE, TRUE)
          \/ \E a \in {"none", "bad"} : o = Walk!Outcome(a, FALSE, TRUE)
      BY <2>2 DEF Walk!decompressFile
    <3>. QED
      BY <2>2, <3>1 DEF Output
  <2>. QED
    BY <2>1, <2>2
<1>2. PICK a \in Output, b \in {TRUE, FALSE}, c \in {TRUE, FALSE} :
        o = Walk!Outcome(a, b, c) /\ (walkOptions.compress => a # "cut")
  BY <1>1
<1>3. o.output = a /\ o.ok = b
  BY <1>2 DEF Walk!Outcome
<1>4. o.output \in Output
  BY <1>3
<1>5. o.ok \in BOOLEAN
  BY <1>3
<1>6. Walk!MayRemove(o) => Good(o.output)
  BY <1>2, <1>3 DEF Walk!MayRemove, Good
<1>. QED
  BY <1>4, <1>5, <1>6

(* main does a file of the command line.                                     *)
LEMMA FileArgumentStep ==
  ASSUME WalkParts, Walk!FileArgument
  PROVE  WalkParts'
<1>0. WalkTypes /\ ComesOnce(arg, calls) /\ Gone(Walk!Plain \ originals, arg, calls)
  BY DEF WalkParts
<1>1. PICK f, b : f = Walk!Last(arg) /\ b = Walk!Front(arg)
  OBVIOUS
<1>2. calls = <<>> /\ calls' = calls /\ arg # <<>> /\ arg' = b /\ f \in Walk!Plain
      /\ walkOptions' = walkOptions
  BY <1>1 DEF Walk!FileArgument, Walk!InMain
<1>3. PICK r \in Output :
        /\ output' = [output EXCEPT ![f] = r]
        /\ originals' = originals \/ (originals' = originals \ {f} /\ Good(r))
  <2>1. PICK o \in IF walkOptions.compress THEN Walk!compressFile ELSE Walk!decompressFile :
          /\ output' = [output EXCEPT ![f] = o.output]
          /\ originals' = originals \/ (originals' = originals \ {f} /\ Walk!MayRemove(o))
    BY <1>1 DEF Walk!FileArgument, Walk!doWork
  <2>. QED
    BY <2>1, Outcomes
<1>4. /\ b \in Seq(HomeEntry) /\ \A i, j \in DOMAIN b : b[i] = b[j] => i = j
      /\ BeforeMain(b) \subseteq BeforeMain(arg)
      /\ Below(f) \subseteq BeforeMain(arg) /\ Below(f) \cap BeforeMain(b) = {}
  BY <1>0, <1>1, <1>2, LastArgument
<1>5. Below(f) = {f}
  BY <1>2, BelowFile
<1>6. f \in originals
  BY <1>0, <1>2, <1>4, <1>5 DEF Gone
<1>7. /\ output' \in [Walk!Plain -> Output] /\ originals' \subseteq Walk!Plain
      /\ Walk!Plain \ originals' \subseteq (Walk!Plain \ originals) \cup {f}
      /\ \A g \in Walk!Plain \ originals' : Good(output[g])'
  BY <1>2, <1>3, <1>6, FileDone
<1>8. WalkTypes'
  BY <1>0, <1>2, <1>4, <1>7 DEF WalkTypes
<1>9. ComesOnce(b, calls) /\ Gone(Walk!Plain \ originals, b, calls)
  BY <1>0, <1>4, LessLeft
<1>10. Gone(Walk!Plain \ originals', b, calls)
  <2>1. DOMAIN calls = {}
    BY <1>2
  <2>. QED
    BY <1>4, <1>5, <1>7, <1>9, <2>1 DEF Gone
<1>. QED
  BY <1>2, <1>7, <1>8, <1>9, <1>10 DEF WalkParts

(* main does not find its argument, or enters a directory, or fails to.      *)
LEMMA ArgumentStep ==
  ASSUME WalkParts, Walk!NotFound \/ Walk!DirectoryArgument
  PROVE  WalkParts'
<1>0. WalkTypes /\ ComesOnce(arg, calls) /\ Gone(Walk!Plain \ originals, arg, calls)
  BY DEF WalkParts
<1>1. PICK d, b : d = Walk!Last(arg) /\ b = Walk!Front(arg)
  OBVIOUS
<1>2. /\ calls = <<>> /\ arg # <<>> /\ arg' = b
      /\ UNCHANGED <<output, originals, walkOptions>>
      /\ \/ calls' = calls
         \/ /\ calls' = Append(calls, [dir |-> d, next |-> 1, error |-> FALSE])
            /\ d \in Walk!Directory
  BY <1>1 DEF Walk!NotFound, Walk!DirectoryArgument, Walk!EnterDirectory, Walk!InMain
<1>3. /\ b \in Seq(HomeEntry) /\ \A i, j \in DOMAIN b : b[i] = b[j] => i = j
      /\ d \in Walk!Entry /\ BeforeMain(b) \subseteq BeforeMain(arg)
      /\ Below(d) \subseteq BeforeMain(arg) /\ Below(d) \cap BeforeMain(b) = {}
  BY <1>0, <1>1, <1>2, LastArgument
<1>4. calls \in Seq(WalkCall) /\ DOMAIN calls = {}
  BY <1>2
<1>5. ComesOnce(b, calls) /\ Gone(Walk!Plain \ originals, b, calls)
  BY <1>0, <1>3, LessLeft
<1>6. CASE calls' = calls
  <2>1. WalkTypes'
    BY <1>0, <1>2, <1>3, <1>6 DEF WalkTypes
  <2>. QED
    BY <1>2, <1>5, <1>6, <2>1 DEF WalkParts, Good
<1>7. CASE calls' # calls
  <2>1. PICK c : c = [dir |-> d, next |-> 1, error |-> FALSE]
    OBVIOUS
  <2>2. c \in WalkCall /\ BeforeCall(c) \subseteq Below(d) /\ calls' = Append(calls, c)
    BY <1>2, <1>3, <1>7, <2>1, NewCall
  <2>3. Gone(Below(d), b, calls)
    BY <1>3, <1>4 DEF Gone
  <2>4. (Walk!Plain \ originals) \cap Below(d) = {}
    BY <1>0, <1>3 DEF Gone
  <2>5. /\ Append(calls, c) \in Seq(WalkCall)
        /\ ComesOnce(b, Append(calls, c)) /\ Gone(Walk!Plain \ originals, b, Append(calls, c))
    BY <1>4, <1>5, <2>2, <2>3, <2>4, Entered
  <2>6. WalkTypes'
    BY <1>0, <1>2, <1>3, <2>2, <2>5 DEF WalkTypes
  <2>. QED
    BY <1>2, <2>2, <2>5, <2>6 DEF WalkParts, Good
<1>. QED
  BY <1>6, <1>7

(* walkDir takes an entry.                                                   *)
LEMMA EntryTaken ==
  ASSUME WalkParts, Walk!Walking, NEW v \in BOOLEAN, NEW ds, ds = Walk!Advanced(v),
         NEW e, e = Walk!entry
  PROVE  /\ e \in Walk!Entry /\ ds \in Seq(WalkCall) /\ ds # <<>>
         /\ ComesOnce(arg, ds) /\ Gone(Walk!Plain \ originals, arg, ds)
         /\ Gone(Below(e), arg, ds) /\ (Walk!Plain \ originals) \cap Below(e) = {}
<1>0. WalkTypes /\ ComesOnce(arg, calls) /\ Gone(Walk!Plain \ originals, arg, calls)
  BY DEF WalkParts
<1>1. calls \in Seq(WalkCall) /\ calls # <<>>
  BY <1>0 DEF WalkTypes, Walk!Walking, Walk!InMain
<1>2. PICK c : c = Walk!Last(calls)
  OBVIOUS
<1>3. /\ c = calls[Len(calls)] /\ c \in WalkCall /\ DOMAIN calls = 1 .. Len(calls)
      /\ Len(calls) \in Nat \ {0}
  BY <1>1, <1>2, FrontOf
<1>4. PICK n \in Nat \ {0} : n = Len(calls)
  BY <1>3
<1>5. PICK r : r = [c EXCEPT !.next = @ + 1, !.error = @ \/ ~v]
  OBVIOUS
<1>6. r \in WalkCall /\ r.dir = c.dir /\ r.next = c.next + 1
  <2>1. PICK x \in BOOLEAN : x = (c.error \/ ~v)
    OBVIOUS
  <2>2. r = [c EXCEPT !.next = @ + 1, !.error = x]
    BY <1>5, <2>1
  <2>3. c = [dir |-> c.dir, next |-> c.next, error |-> c.error]
        /\ c.dir \in Walk!Directory /\ c.next \in Nat
    BY <1>3 DEF WalkCall
  <2>4. PICK m \in Nat : m = c.next
    BY <2>3
  <2>5. r = [dir |-> c.dir, next |-> m + 1, error |-> x]
    BY <2>2, <2>3, <2>4
  <2>6. r \in WalkCall
    BY <2>3, <2>5 DEF WalkCall
  <2>. QED
    BY <2>4, <2>5, <2>6
<1>7. c.next <= Len(Tree[c.dir]) /\ e = Tree[c.dir][c.next]
  BY <1>2 DEF Walk!Walking, Walk!top, Walk!entry
<1>8. /\ e \in Walk!Entry /\ BeforeCall(r) \subseteq BeforeCall(c)
      /\ Below(e) \subseteq BeforeCall(c) /\ Below(e) \cap BeforeCall(r) = {}
  BY <1>3, <1>6, <1>7, NextEntry
<1>9. /\ ds \in Seq(WalkCall) /\ DOMAIN ds = DOMAIN calls /\ ds # <<>>
      /\ \A k \in DOMAIN calls : ds[k] = IF k = n THEN r ELSE calls[k]
  <2>1. ds = Walk!SetTop(calls, r)
    BY <1>2, <1>5 DEF Walk!Advanced, Walk!top
  <2>2. /\ ds \in Seq(WalkCall) /\ DOMAIN ds = DOMAIN calls /\ Len(ds) = Len(calls)
        /\ \A k \in DOMAIN calls : ds[k] = IF k = Len(calls) THEN r ELSE calls[k]
    BY <1>1, <1>6, <2>1, TopSet
  <2>3. ds # <<>>
    BY <1>3, <2>2
  <2>. QED
    BY <1>4, <2>2, <2>3
<1>10. n \in DOMAIN calls /\ c = calls[n]
  BY <1>3, <1>4
<1>11. \A i \in DOMAIN ds : BeforeCall(ds[i]) \subseteq BeforeCall(calls[i])
  BY <1>8, <1>9, <1>10
<1>12. ComesOnce(arg, ds) /\ Gone(Walk!Plain \ originals, arg, ds)
  BY <1>0, <1>9, <1>11, LessLeft
<1>13. Below(e) \cap BeforeMain(arg) = {} /\ (Walk!Plain \ originals) \cap Below(e) = {}
  BY <1>0, <1>8, <1>10 DEF ComesOnce, Gone
<1>14. ASSUME NEW i \in DOMAIN ds
       PROVE  Below(e) \cap BeforeCall(ds[i]) = {}
  <2>1. CASE i = n
    BY <1>8, <1>9, <1>10, <2>1
  <2>2. CASE i # n
    <3>1. BeforeCall(calls[n]) \cap BeforeCall(calls[i]) = {}
      BY <1>0, <1>9, <1>10, <2>2 DEF ComesOnce
    <3>. QED
      BY <1>8, <1>9, <1>10, <2>2, <3>1
  <2>. QED
    BY <2>1, <2>2
<1>15. Gone(Below(e), arg, ds)
  BY <1>13, <1>14 DEF Gone
<1>. QED
  BY <1>8, <1>9, <1>12, <1>13, <1>15

(* walkDir does a file.                                                      *)
LEMMA WalkFileStep ==
  ASSUME WalkParts, Walk!WalkFile
  PROVE  WalkParts'
<1>0. WalkTypes
  BY DEF WalkParts
<1>1. PICK f : f = Walk!entry
  OBVIOUS
<1>2. Walk!Walking /\ f \in Walk!Plain /\ arg' = arg /\ walkOptions' = walkOptions
  BY <1>1 DEF Walk!WalkFile
<1>3. PICK r \in Output, v \in BOOLEAN :
        /\ output' = [output EXCEPT ![f] = r]
        /\ originals' = originals \/ (originals' = originals \ {f} /\ Good(r))
        /\ calls' = Walk!Advanced(v)
  <2>1. PICK o \in IF walkOptions.compress THEN Walk!compressFile ELSE Walk!decompressFile :
          /\ output' = [output EXCEPT ![f] = o.output]
          /\ originals' = originals \/ (originals' = originals \ {f} /\ Walk!MayRemove(o))
          /\ calls' = Walk!Advanced(o.ok)
    BY <1>1 DEF Walk!WalkFile, Walk!doWork
  <2>2. o.output \in Output /\ o.ok \in BOOLEAN /\ (Walk!MayRemove(o) => Good(o.output))
    BY Outcomes
  <2>. QED
    BY <2>1, <2>2
<1>4. PICK ds : ds = Walk!Advanced(v)
  OBVIOUS
<1>5. /\ ds \in Seq(WalkCall) /\ ComesOnce(arg, ds) /\ Gone(Walk!Plain \ originals, arg, ds)
      /\ Gone(Below(f), arg, ds) /\ (Walk!Plain \ originals) \cap Below(f) = {}
  BY <1>1, <1>2, <1>4, EntryTaken
<1>6. Below(f) = {f}
  BY <1>2, BelowFile
<1>7. f \in originals
  BY <1>2, <1>5, <1>6
<1>8. /\ output' \in [Walk!Plain -> Output] /\ originals' \subseteq Walk!Plain
      /\ Walk!Plain \ originals' \subseteq (Walk!Plain \ originals) \cup {f}
      /\ \A g \in Walk!Plain \ originals' : Good(output[g])'
  BY <1>2, <1>3, <1>7, FileDone
<1>9. calls' = ds
  BY <1>3, <1>4
<1>10. WalkTypes'
  BY <1>0, <1>2, <1>5, <1>8, <1>9 DEF WalkTypes
<1>11. Gone(Walk!Plain \ originals', arg, ds)
  BY <1>5, <1>6, <1>8 DEF Gone
<1>. QED
  BY <1>2, <1>5, <1>8, <1>9, <1>10, <1>11 DEF WalkParts

(* walkDir enters a directory, or fails to.                                  *)
LEMMA WalkDirectoryStep ==
  ASSUME WalkParts, Walk!WalkDirectory
  PROVE  WalkParts'
<1>0. WalkTypes
  BY DEF WalkParts
<1>1. PICK d : d = Walk!entry
  OBVIOUS
<1>2. Walk!Walking /\ d \in Walk!Directory /\ UNCHANGED <<arg, output, originals, walkOptions>>
  BY <1>1 DEF Walk!WalkDirectory
<1>3. CASE calls' = Walk!Advanced(FALSE)
  <2>1. PICK ds : ds = Walk!Advanced(FALSE)
    OBVIOUS
  <2>2. ds \in Seq(WalkCall) /\ ComesOnce(arg, ds) /\ Gone(Walk!Plain \ originals, arg, ds)
    BY <1>1, <1>2, <2>1, EntryTaken
  <2>3. calls' = ds
    BY <1>3, <2>1
  <2>4. WalkTypes'
    BY <1>0, <1>2, <2>2, <2>3 DEF WalkTypes
  <2>. QED
    BY <1>2, <2>2, <2>3, <2>4 DEF WalkParts, Good
<1>4. CASE calls' = Append(Walk!Advanced(TRUE), [dir |-> d, next |-> 1, error |-> FALSE])
  <2>1. PICK ds, c : ds = Walk!Advanced(TRUE) /\ c = [dir |-> d, next |-> 1, error |-> FALSE]
    OBVIOUS
  <2>2. /\ d \in Walk!Entry /\ ds \in Seq(WalkCall) /\ ComesOnce(arg, ds)
        /\ Gone(Walk!Plain \ originals, arg, ds)
        /\ Gone(Below(d), arg, ds) /\ (Walk!Plain \ originals) \cap Below(d) = {}
    BY <1>1, <1>2, <2>1, EntryTaken
  <2>3. c \in WalkCall /\ BeforeCall(c) \subseteq Below(d)
    BY <1>2, <2>1, <2>2, NewCall
  <2>4. /\ Append(ds, c) \in Seq(WalkCall)
        /\ ComesOnce(arg, Append(ds, c)) /\ Gone(Walk!Plain \ originals, arg, Append(ds, c))
    BY <2>2, <2>3, Entered
  <2>5. calls' = Append(ds, c)
    BY <1>4, <2>1
  <2>6. WalkTypes'
    BY <1>0, <1>2, <2>4, <2>5 DEF WalkTypes
  <2>. QED
    BY <1>2, <2>4, <2>5, <2>6 DEF WalkParts, Good
<1>. QED
  BY <1>1, <1>3, <1>4 DEF Walk!WalkDirectory, Walk!EnterDirectory

(* A call of walkDir ends, at its last entry or at one stat or readdir fails *)
(* for.                                                                      *)
LEMMA WalkEndStep ==
  ASSUME WalkParts, Walk!EntryFails \/ Walk!WalkEnds
  PROVE  WalkParts'
<1>1. calls # <<>> /\ UNCHANGED <<arg, output, originals, walkOptions>>
  BY DEF Walk!EntryFails, Walk!WalkEnds, Walk!InMain
<1>2. Walk!ReturnFalse \/ Walk!ReturnTrue
  BY DEF Walk!EntryFails, Walk!WalkEnds
<1>3. PICK rest : rest = Walk!Front(calls)
  OBVIOUS
<1>4. calls' = rest \/ (rest # <<>> /\ calls' = Walk!Noted(rest))
  BY <1>2, <1>3 DEF Walk!ReturnFalse, Walk!ReturnTrue
<1>5. Dropped
  BY <1>3, <1>4 DEF Dropped, Walk!Noted
<1>. QED
  BY <1>1, <1>5, DropStep

(* A signal ends the program.                                                *)
LEMMA WalkKilledStep ==
  ASSUME WalkParts, Walk!Killed
  PROVE  WalkParts'
<1>1. arg' = <<>> /\ calls' = <<>> /\ UNCHANGED <<output, originals, walkOptions>>
  BY DEF Walk!Killed
<1>2. WalkTypes' /\ ComesOnce(<<>>, <<>>) /\ Gone(Walk!Plain \ originals, <<>>, <<>>)
  BY <1>1 DEF WalkParts, WalkTypes, ComesOnce, Gone, BeforeMain
<1>. QED
  BY <1>1, <1>2 DEF WalkParts, Good

(* Every step of compdecomp.                                                 *)
LEMMA WalkStep ==
  ASSUME WalkParts, Walk!Next \/ UNCHANGED Walk!vars
  PROVE  WalkParts'
<1>1. CASE UNCHANGED Walk!vars
  BY <1>1 DEF Walk!vars, WalkParts, WalkTypes, Good
<1>2. CASE Walk!Main
  BY <1>2, FileArgumentStep, ArgumentStep DEF Walk!Main
<1>3. CASE Walk!Walk
  BY <1>3, WalkEndStep, WalkFileStep, WalkDirectoryStep DEF Walk!Walk
<1>4. CASE Walk!Killed
  BY <1>4, WalkKilledStep
<1>. QED
  BY <1>1, <1>2, <1>3, <1>4 DEF Walk!Next, Walk!Ended

(* Nothing has been removed.                                                 *)
LEMMA WalkStart ==
  ASSUME Walk!Init
  PROVE  WalkParts
<1>1. /\ arg \in Arguments /\ calls = <<>> /\ originals = Walk!Plain
      /\ output = [f \in Walk!Plain |-> "none"]
  BY DEF Walk!Init
<1>2. arg \in Seq(HomeEntry) /\ \A i, j \in DOMAIN arg : arg[i] = arg[j] => i = j
  BY <1>1, WalkAssumption DEF HomeEntry
<1>3. calls \in Seq(WalkCall) /\ DOMAIN calls = {}
  BY <1>1
<1>. QED
  BY <1>1, <1>2, <1>3 DEF WalkParts, WalkTypes, ComesOnce, Gone, Output
-----------------------------------------------------------------------------

-----------------------------------------------------------------------------
(* The compressors inside the programs of the module.                       *)
LEMMA FilesInitial == Init => CompInv /\ WalkInv
<1>1. Init /\ network = "compressor" => CompParts
  BY CompStart DEF Init, InitOf
<1>2. Init /\ network = "walk" => WalkParts
  BY WalkStart DEF Init, InitOf
<1>. QED
  BY <1>1, <1>2 DEF CompInv, WalkInv

(* A step of the module is a step of a compressor or leaves it alone.       *)
LEMMA FilesSteps ==
  ASSUME [Next]_vars
  PROVE  /\ network' = network
         /\ network = "compressor" => Comp!Next \/ UNCHANGED compressorVars
         /\ network = "walk" => Walk!Next \/ UNCHANGED walkVars
BY DEF Next, vars, InFarm, InLoops, InWave, InDots, InComp, InWalk, InFlow, InDac

(* Every step of the module keeps the invariants of the compressors.        *)
LEMMA FilesNext ==
  ASSUME CompInv, WalkInv, [Next]_vars
  PROVE  CompInv' /\ WalkInv'
<1>1. network' = network
  BY FilesSteps
<1>2. CASE network = "compressor"
  <2>1. UNCHANGED compressorVars => UNCHANGED Comp!vars
    BY DEF compressorVars, Comp!vars, Comp!disk
  <2>2. CompParts /\ (Comp!Next \/ UNCHANGED Comp!vars)
    BY <1>2, <2>1, FilesSteps DEF CompInv
  <2>. QED
    BY <1>1, <1>2, <2>2, CompStep DEF CompInv, WalkInv
<1>3. CASE network = "walk"
  <2>1. UNCHANGED walkVars => UNCHANGED Walk!vars
    BY DEF walkVars, Walk!vars
  <2>2. WalkParts /\ (Walk!Next \/ UNCHANGED Walk!vars)
    BY <1>3, <2>1, FilesSteps DEF WalkInv
  <2>. QED
    BY <1>1, <1>3, <2>2, WalkStep DEF CompInv, WalkInv
<1>4. CASE network \notin {"compressor", "walk"}
  BY <1>1, <1>4 DEF CompInv, WalkInv
<1>. QED
  BY <1>2, <1>3, <1>4

(* ffc_farm, whatever calls fail: the failing calls of one file do no harm  *)
(* to another; compressing removes originals for complete results only, in  *)
(* whatever order the blocks come; "Done." is said over complete results    *)
(* with nothing left over, but for files with a failing stat, fclose,       *)
(* unlink or write of a small result.  compdecomp removes originals for     *)
(* complete outputs only, but for a decompression whose fclose failed.      *)
THEOREM FilesStayIntact == Spec => []FilesIntact
<1>1. CompInv /\ WalkInv => FilesIntact
  <2>1. WalkParts => Walk!NothingLost
    BY DEF WalkParts, Walk!NothingLost, Good
  <2>. QED
    BY <2>1, CompFacts DEF CompInv, WalkInv, FilesIntact
<1>. QED
  BY <1>1, FilesInitial, FilesNext, PTL DEF Spec

-----------------------------------------------------------------------------
(* The order of the dot products inside the networks.                       *)
InputOrderInv == network = "dots" => OrderInv

(* example-pipe.cpp, example-pipe_square.cpp and example-farm3-ordered.cpp: *)
(* the products are added up in the order of the input, for every number of *)
(* items and of workers, whatever the threads do.                           *)
THEOREM ResultsInOrder == Spec => []InputOrder
<1>1. Init => DotInv /\ InputOrderInv
  BY DotInitial, OrderStart DEF InputOrderInv, Init, InitOf
<1>2. DotInv /\ InputOrderInv /\ [Next]_vars => DotInv' /\ InputOrderInv'
  <2>. SUFFICES ASSUME DotInv, InputOrderInv, [Next]_vars
                PROVE  DotInv' /\ InputOrderInv'
    OBVIOUS
  <2>1. network' = network /\ (network = "dots" => Dots!Next \/ UNCHANGED dotsVars)
    BY DotSteps
  <2>2. network = "dots" => OrderInv'
    BY <2>1, OrderStep DEF DotInv, InputOrderInv
  <2>. QED BY <2>1, <2>2, DotNext DEF InputOrderInv
<1>3. DotInv /\ InputOrderInv => InputOrder
  BY OrderFacts DEF DotInv, InputOrderInv, InputOrder
<1>. QED
  BY <1>1, <1>2, <1>3, PTL DEF Spec
============================================================
