------------------------------ MODULE ItemNetworks ------------------------------
(***************************************************************************)
(* The networks items flow through from a source to a sink, side by side:  *)
(* the farms, pipelines, nested loops and OpenMP regions of example6 and   *)
(* the farm of Wf_ff.  StreamNetworks adds the other programs and says     *)
(* which one runs.                                                         *)
(***************************************************************************)
EXTENDS Integers

CONSTANTS
  length, nworkers,               \* example6: items and workers
  N, Nw                           \* Wf_ff: size of the matrix and workers

ASSUME FarmAssumption == length \in Nat \ {0} /\ nworkers \in Nat \ {0}
ASSUME WavefrontAssumption == N \in Nat \ {0} /\ Nw \in Nat \ {0}

VARIABLES
  network,       \* the program that runs
  sent, input, ready, nready, last, data, eos_received, emitter, task, back,
  result, worker, sum, sinkEOS, sink,
  emitted, returned, stage0, onthefly, eosreceived, eosA, stageA, forwarded,
  stageB, stage1, toA, toB, to1, loopA, loop0, printed,
  M, send, done, diag, waveEmitter, waveInput, feedback, elem, waveWorker,
  program, nsent, queue, held, eosFrom, running, pool, vectors, added

farmVars == <<sent, input, ready, nready, last, data, eos_received, emitter,
               task, back, result, worker, sum, sinkEOS, sink>>
loopsVars == <<emitted, returned, stage0, onthefly, eosreceived, eosA,
                stageA, forwarded, stageB, stage1, toA, toB, to1, loopA,
                loop0, printed>>
wavefrontVars == <<M, send, done, diag, waveEmitter, waveInput, feedback,
                    elem, waveWorker>>
dotsVars == <<program, nsent, queue, held, eosFrom, running, pool, vectors,
               added>>

Farm == INSTANCE FarmOnDemand
Loops == INSTANCE TerminationLoop
Wave == INSTANCE WavefrontFF
          WITH emitter <- waveEmitter, input <- waveInput, worker <- waveWorker
Dots == INSTANCE DotProductStreams WITH sent <- nsent, sum <- added
=============================================================================
