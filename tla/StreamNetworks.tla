----------------------------- MODULE StreamNetworks ----------------------------
(***************************************************************************)
(* The FastFlow programs of example6 to example8 and of the exam, with the *)
(* OpenMP and sequential versions of the same problems, side by side; one  *)
(* of them runs, the variables of the others are 0.                        *)
(***************************************************************************)
EXTENDS ItemNetworks, Sequences

CONSTANTS
  Files, Sizes, Degree,           \* ffc_farm
  Tree, Arguments, Home,          \* compdecomp
  MaxFaults,                      \* failing calls of one run of a compressor
  threads, nb,                    \* data flow: threads, blocks of ff_chol_mdf
  CUTOFF, Arrays, FibMax          \* divide and conquer

ASSUME CompressorAssumption ==
  /\ Files \in Nat /\ Degree \in Nat \ {0}
  /\ \A f \in 1 .. Files : Sizes[f] \subseteq Nat
ASSUME FlowAssumption == threads \in Nat \ {0} /\ nb \in Nat /\ CUTOFF \in Nat /\ FibMax \in Nat

(* The directories are a tree: an entry is in one of them, once, and none   *)
(* is below itself.  An argument is an entry of Home, and is given once.    *)
ASSUME WalkAssumption ==
  /\ Home \in DOMAIN Tree /\ MaxFaults \in Nat
  /\ Tree \in [DOMAIN Tree -> Seq(Nat)]
  /\ \A d, e \in DOMAIN Tree : \A i \in DOMAIN Tree[d] : \A j \in DOMAIN Tree[e] :
       Tree[d][i] = Tree[e][j] => d = e /\ i = j
  /\ \A S \in SUBSET DOMAIN Tree : S # {} =>
       \E d \in S : \A i \in DOMAIN Tree[d] : Tree[d][i] \notin S
  /\ \A a \in Arguments :
       /\ a \in Seq({Tree[Home][i] : i \in DOMAIN Tree[Home]})
       /\ \A i, j \in DOMAIN a : a[i] = a[j] => i = j

VARIABLES
  options, arguments, faults, argi, blk, listed, tasks, work, written,
  blocksOf, part, cut, packed, dirV, target, original, neighbour, tmpdir,
  failed, writer,
  arg, cwd, calls, success, output, originals, walkFaults, walkOptions,
  dag, generated, doing, executed, memory,
  dac, divided, partials, array

compressorVars == <<options, arguments, faults, argi, blk, listed, tasks,
                     work, written, blocksOf, part, cut, packed, dirV,
                     target, original, neighbour, tmpdir, failed, writer>>
walkVars == <<arg, cwd, calls, success, output, originals, walkFaults,
               walkOptions>>
flowVars == <<dag, generated, doing, executed, memory>>
dacVars == <<dac, divided, partials, array>>
vars == <<network, farmVars, loopsVars, wavefrontVars, dotsVars,
          compressorVars, walkVars, flowVars, dacVars>>

Comp == INSTANCE FileCompressor WITH input <- arguments, M <- blocksOf
Walk == INSTANCE DirectoryWalk
          WITH original <- originals, faults <- walkFaults, options <- walkOptions
Flow == INSTANCE DataFlow WITH added <- generated, done <- executed
Dac == INSTANCE DivideAndConquer WITH calls <- divided, results <- partials

Networks ==
  {"farm", "loops", "wavefront", "dots", "compressor", "walk", "flow", "dac"}

InitOf(n, A, idle) == IF network = n THEN A ELSE idle

Init ==
  /\ network \in Networks
  /\ InitOf("farm", Farm!Init,
            sent = 0 /\ input = 0 /\ ready = 0 /\ nready = 0 /\ last = 0 /\
             data = 0 /\ eos_received = 0 /\ emitter = 0 /\ task = 0 /\
             back = 0 /\ result = 0 /\ worker = 0 /\ sum = 0 /\
             sinkEOS = 0 /\ sink = 0)
  /\ InitOf("loops", Loops!Init,
            emitted = 0 /\ returned = 0 /\ stage0 = 0 /\ onthefly = 0 /\
             eosreceived = 0 /\ eosA = 0 /\ stageA = 0 /\ forwarded = 0 /\
             stageB = 0 /\ stage1 = 0 /\ toA = 0 /\ toB = 0 /\ to1 = 0 /\
             loopA = 0 /\ loop0 = 0 /\ printed = 0)
  /\ InitOf("wavefront", Wave!FFInit,
            M = 0 /\ send = 0 /\ done = 0 /\ diag = 0 /\ waveEmitter = 0 /\
             waveInput = 0 /\ feedback = 0 /\ elem = 0 /\ waveWorker = 0)
  /\ InitOf("dots", Dots!Init,
            program = 0 /\ nsent = 0 /\ queue = 0 /\ held = 0 /\
             eosFrom = 0 /\ running = 0 /\ pool = 0 /\ vectors = 0 /\
             added = 0)
  /\ InitOf("compressor", Comp!Init,
            options = 0 /\ arguments = 0 /\ faults = 0 /\ argi = 0 /\
             blk = 0 /\ listed = 0 /\ tasks = 0 /\ work = 0 /\
             written = 0 /\ blocksOf = 0 /\ part = 0 /\ cut = 0 /\
             packed = 0 /\ dirV = 0 /\ target = 0 /\ original = 0 /\
             neighbour = 0 /\ tmpdir = 0 /\ failed = 0 /\ writer = 0)
  /\ InitOf("walk", Walk!Init,
            arg = 0 /\ cwd = 0 /\ calls = 0 /\ success = 0 /\ output = 0 /\
             originals = 0 /\ walkFaults = 0 /\ walkOptions = 0)
  /\ InitOf("flow", Flow!Init,
            dag = 0 /\ generated = 0 /\ doing = 0 /\ executed = 0 /\ memory = 0)
  /\ InitOf("dac", Dac!Init, dac = 0 /\ divided = 0 /\ partials = 0 /\ array = 0)

InFarm(A) ==
  /\ network = "farm" /\ A
  /\ UNCHANGED <<network, loopsVars, wavefrontVars, dotsVars,
                 compressorVars, walkVars, flowVars, dacVars>>
InLoops(A) ==
  /\ network = "loops" /\ A
  /\ UNCHANGED <<network, farmVars, wavefrontVars, dotsVars,
                 compressorVars, walkVars, flowVars, dacVars>>
InWave(A) ==
  /\ network = "wavefront" /\ A
  /\ UNCHANGED <<network, farmVars, loopsVars, dotsVars,
                 compressorVars, walkVars, flowVars, dacVars>>
InDots(A) ==
  /\ network = "dots" /\ A
  /\ UNCHANGED <<network, farmVars, loopsVars, wavefrontVars,
                 compressorVars, walkVars, flowVars, dacVars>>
InComp(A) ==
  /\ network = "compressor" /\ A
  /\ UNCHANGED <<network, farmVars, loopsVars, wavefrontVars, dotsVars,
                 walkVars, flowVars, dacVars>>
InWalk(A) ==
  /\ network = "walk" /\ A
  /\ UNCHANGED <<network, farmVars, loopsVars, wavefrontVars, dotsVars,
                 compressorVars, flowVars, dacVars>>
InFlow(A) ==
  /\ network = "flow" /\ A
  /\ UNCHANGED <<network, farmVars, loopsVars, wavefrontVars, dotsVars,
                 compressorVars, walkVars, dacVars>>
InDac(A) ==
  /\ network = "dac" /\ A
  /\ UNCHANGED <<network, farmVars, loopsVars, wavefrontVars, dotsVars,
                 compressorVars, walkVars, flowVars>>

Next ==
  \/ InFarm(Farm!Next)
  \/ InLoops(Loops!Next)
  \/ InWave(Wave!FFNext)
  \/ InDots(Dots!Next)
  \/ InComp(Comp!Next)
  \/ InWalk(Walk!Next)
  \/ InFlow(Flow!Next)
  \/ InDac(Dac!Next)

(* Nodes and threads go on as long as they can; no program runs in circles, *)
(* so that it is enough that somebody does.                                 *)
Spec == Init /\ [][Next]_vars /\ WF_vars(Next)

-----------------------------------------------------------------------------
(* What is on its way is counted right.  example-farm-ondemand.cpp: a flag  *)
(* is up exactly when its worker has nothing to do, and no task is buffered *)
(* while a flag is up.  Wf_ff.cpp: send - done is the number of tasks out,  *)
(* all of the current diagonal.  termination_with_loop.cpp: onthefly is the *)
(* number of items in the inner loop.                                       *)
InFlightCounted ==
  /\ network = "farm" => Farm!OnDemand /\ Farm!BufferOnlyWhenBusy
  /\ network = "loops" => Loops!LoopCounted
  /\ network = "wavefront" => Wave!CountsInFlight

(* Whoever sends EOS sends it behind the last item, also where the stream   *)
(* goes round in a feedback channel, and nothing is left when the sink ends *)
EOSBehindLast ==
  /\ network = "farm" => Farm!EOSBehindLastTask
  /\ network = "loops" => Loops!EOSBehindLastItem
  /\ network = "wavefront" => Wave!EOSMeansComplete
  /\ network = "dots" => Dots!NothingBehindEOS

(* Results come in the order of the input where the network promises it: in *)
(* a pipeline, whatever its threads do, and in the ordered farm.            *)
InputOrder == network = "dots" => Dots!InOrder

(* ffc_farm: a failing call for one file does no harm to another; what      *)
(* compressing removes has a complete result, whatever fails and in         *)
(* whatever order the blocks come; "Done." is printed only over complete    *)
(* results, but for the files with an error the program does not look at.   *)
(* compdecomp: no original is removed for less than a complete output, but  *)
(* for one whose fclose failed in decompression.                            *)
FilesIntact ==
  /\ network = "compressor" => Comp!FilesIntact
  /\ network = "walk" => Walk!NothingLost

(* The tasks of a data flow and the calls of a divide and conquer program   *)
(* leave what the same calls leave one after the other: the numbers, the    *)
(* factors, the product A * B, the array in order.                          *)
AsIfSequential ==
  /\ network = "flow" => Flow!SequentialResult
  /\ network = "dac" => Dac!DividedResult /\ Dac!Disjoint

(* The farms, pipelines, loops and OpenMP regions of example6 implement a   *)
(* stream: every item comes out once, and the end after the last one.       *)
NothingYet == [i \in 1 .. length |-> 0]
Out == INSTANCE Stream
  WITH Item <- 1 .. length,
       count <- CASE network = "farm" -> sum
                  [] network = "loops" -> printed
                  [] network = "dots" -> added
                  [] OTHER -> NothingYet,
       ended <- CASE network = "farm" -> sink = "ended"
                  [] network = "loops" -> Loops!Over
                  [] network = "dots" -> Dots!Over
                  [] OTHER -> FALSE
NetworksAreStreams == Out!Spec

(* Wf_ff.cpp implements the wavefront: every step computes an element whose *)
(* factors are there, no element is computed again.                         *)
Matrix == IF network = "wavefront" THEN M ELSE Wave!InitialM
Elements == INSTANCE Wavefront WITH M <- Matrix
AbstractWavefront == Elements!Init /\ [][Elements!Next]_Matrix

(* All the programs end, and Wf_ff with the whole matrix.                   *)
NetworksEnd ==
  <>(CASE network = "farm" -> sink = "ended" /\ emitter = "ended"
       [] network = "loops" -> Loops!Over
       [] network = "wavefront" -> Wave!Over /\ \A c \in Wave!Cell : M[c] = "ok"
       [] network = "dots" -> running = {}
       [] network = "compressor" -> Comp!Over
       [] network = "walk" -> Walk!AtEnd
       [] network = "flow" -> Flow!Over
       [] network = "dac" -> Dac!Over)

(* cmdline.hpp:39: "-C compress: 0 preserves, 1 removes the original file". *)
OnlyOriginalsRemoved == network = "compressor" => Comp!OnlyOriginalsRemoved

(* utility.hpp:277: "the input compressed file will be removed if           *)
(* successfully uncompressed", the more so when the failure was noticed.    *)
RemovedIfUncompressed == network = "compressor" => Comp!RemovedIfUncompressed

-----------------------------------------------------------------------------
(* Directory 1 has a file and two directories, one with a directory of its  *)
(* own between two files.                                                   *)
SmallTree == <<<<11, 2, 3>>, <<21, 4, 22>>, <<31>>, <<41>>>>
FewArguments == {<<11>>, <<2>>, <<3, 11>>, <<11, 3>>, <<2, 3>>}

(* Two arguments of ffc_farm, with three and two blocks or parts; and one.  *)
TwoFiles == <<{1, 3}, {1, 2}>>
OneFile == <<{1, 2}>>

(* All short arrays with equal numbers, and a longer one; no number.        *)
ShortArrays == [0 .. 4 -> 1 .. 2] \cup {<<>>, [i \in 0 .. 6 |-> (i * 3) % 5]}
=============================================================================
