--------------------------- MODULE DotProductStreams ---------------------------
(***************************************************************************)
(* The programs of example6 that send a stream of dot products through a   *)
(* FastFlow network (pipeline, farm, farm with feedback, all-to-all) or    *)
(* through OpenMP tasks.  A program is the network it builds: which nodes, *)
(* which channels, how the stream ends.  A node is a thread; it calls svc  *)
(* on one message at a time and ends with EOS from all its input channels. *)
(* Of an item only its number is kept, the values are random.              *)
(***************************************************************************)
EXTENDS Naturals, FiniteSets, SequencesExt

CONSTANTS
  length,      \* length of the stream
  nworkers     \* number of workers

Item == 1 .. length
EOS == 0       \* FastFlow's end-of-stream, no item's number

VARIABLES
  program,     \* the network that runs
  sent,        \* the source has sent the items 1 .. sent
  queue,       \* queue[c]: the channel c
  held,        \* held[n]: the item node n is computing, or EOS
  eosFrom,     \* the channels that have ended
  running,     \* the nodes that have not ended
  pool,        \* OpenMP: the tasks created and not taken
  vectors,     \* vectors[t]: the items whose data is in V1 and V2 of thread t
  sum          \* sum[i]: how often the product of item i was added to sum

vars == <<program, sent, queue, held, eosFrom, running, pool, vectors, sum>>

Source == <<"Source", 0>>
Emitter == <<"Emitter", 0>>
Collector == <<"Collector", 0>>
Sink == <<"Sink", 0>>
W(w) == <<"dotProd", w>>
Workers == {W(w) : w \in 1 .. nworkers}

(* A stage is a set of nodes, each with a channel to each node of the next. *)
Stages(stages) ==
  UNION {stages[k] \X stages[k + 1] : k \in 1 .. Len(stages) - 1}

(* source and sink: the nodes with the code that sends and that adds up.    *)
(* alive: the source broadcasts EOS and goes on, it does not end with it.   *)
(* ondemand: the channels to the workers have room for one item.            *)
Network(stages) ==
  [channels |-> Stages(stages), source |-> Source, sink |-> Sink,
   alive |-> FALSE, ondemand |-> FALSE, ordered |-> FALSE]

OnDemandFarm(stages) == [Network(stages) EXCEPT !.ondemand = TRUE]

pipe == Network(<<{Source}, {W(1)}, {Sink}>>)

(* pipe_square: the second stage squares the item in place and returns it.  *)
pipe_square == Network(<<{Source}, {W(1)}, {Sink}>>)

farm == OnDemandFarm(<<{Source}, {Emitter}, Workers, {Collector}, {Sink}>>)

(* The sink has an input channel from each worker.                          *)
farm2 == OnDemandFarm(<<{Source}, {Emitter}, Workers, {Sink}>>)

(* The source is the emitter, the sink the collector.                       *)
farm3 == OnDemandFarm(<<{Source}, Workers, {Sink}>>)

(* Mutant: a farm that gives up the order of its input.                     *)
mut_farm3_ordered == farm3

farm3_ordered == [farm3 EXCEPT !.ordered = TRUE]

(* The combination of the sink and the source is the emitter: its sink      *)
(* answers the first call, which has no input, with the start the source    *)
(* waits for, and adds up what comes back; the source broadcasts EOS.       *)
farm4 == [OnDemandFarm(<<{Source}, Workers, {Source}>>)
            EXCEPT !.sink = Source, !.alive = TRUE]

(* One node is both.                                                        *)
farm5 == [OnDemandFarm(<<{Source}, Workers, {Source}>>)
            EXCEPT !.sink = Source, !.alive = TRUE]

(* First set: the source; second set: the workers.                          *)
a2a == OnDemandFarm(<<{Source}, Workers, {Sink}>>)

(* Without channels: a node called until its counter is over 5, and a loop. *)
onenode == [Network(<<{Source}>>) EXCEPT !.sink = Source]
seq == [Network(<<{Source}>>) EXCEPT !.sink = Source]

(* OpenMP: the thread of the single construct is the source, the team's     *)
(* threads are the workers, the channels are the pool of tasks.             *)
omp == [Network(<<{Source}, Workers>>) EXCEPT !.sink = Source]
omp2 == [Network(<<{Source}, Workers>>) EXCEPT !.sink = Source]

Programs ==
  {"pipe", "pipe_square", "farm", "farm2", "farm3", "farm3_ordered", "farm4",
   "farm5", "a2a", "onenode", "seq", "omp", "omp2"}

OpenMP == program \in {"omp", "omp2"}

net ==
  CASE program = "pipe" -> pipe     [] program = "pipe_square" -> pipe_square
    [] program = "farm" -> farm     [] program = "farm2" -> farm2
    [] program = "farm3" -> farm3   [] program = "farm3_ordered" -> farm3_ordered
    [] program = "farm4" -> farm4   [] program = "farm5" -> farm5
    [] program = "a2a" -> a2a       [] program = "onenode" -> onenode
    [] program = "seq" -> seq       [] program = "omp" -> omp
    [] program = "omp2" -> omp2
Node == {net.source} \cup {c[1] : c \in net.channels} \cup {c[2] : c \in net.channels}
In(n) == {c \in net.channels : c[2] = n}
Out(n) == {c \in net.channels : c[1] = n}

Init ==
  /\ program \in Programs
  /\ sent = 0
  /\ queue = [c \in net.channels |-> <<>>]
  /\ held = [n \in Node |-> EOS]
  /\ eosFrom = {}
  /\ running = Node
  /\ pool = {}
  /\ vectors = [w \in Workers |-> {}]
  /\ sum = [i \in Item |-> 0]

(* A worker's queue takes one item in a farm with on-demand scheduling.     *)
Room(c) == net.ondemand /\ c[2] \in Workers => Len(queue[c]) < 1

Put(q, c, m) == [q EXCEPT ![c] = Append(@, m)]
(* EOS always finds room.                                                   *)
Broadcast(q, n) == [c \in DOMAIN q |-> IF c \in Out(n) THEN Append(q[c], EOS) ELSE q[c]]
Added(i) == [sum EXCEPT ![i] = @ + 1]

(* The source: one item after the other; a program without channels adds    *)
(* the item up itself.                                                      *)
Send ==
  /\ ~OpenMP
  /\ sent < length
  /\ sent' = sent + 1
  /\ IF Out(net.source) = {}
     THEN sum' = Added(sent') /\ UNCHANGED queue
     ELSE /\ UNCHANGED sum
          /\ \E c \in Out(net.source) : Room(c) /\ queue' = Put(queue, c, sent')
  /\ UNCHANGED <<program, held, eosFrom, running, pool, vectors>>

(* Then EOS: returned, which ends the node, or broadcast.                   *)
SendEOS ==
  /\ ~OpenMP
  /\ sent = length
  /\ sent' = sent + 1
  /\ queue' = Broadcast(queue, net.source)
  /\ running' = IF net.alive THEN running ELSE running \ {net.source}
  /\ UNCHANGED <<program, held, eosFrom, pool, vectors, sum>>

(* FastFlow's collector of an ordered farm takes the results in the order   *)
(* of the items.                                                            *)
InTurn(i) == net.ordered => \A j \in 1 .. i - 1 : sum[j] > 0

Receives(c) ==
  /\ ~OpenMP
  /\ c[2] \in running /\ queue[c] # <<>>
  /\ c[2] = net.source => sent > length      \* one svc at a time

(* svc of the sink: sum += r.                                               *)
Sum(c) ==
  /\ c[2] = net.sink
  /\ Receives(c) /\ Head(queue[c]) # EOS
  /\ InTurn(Head(queue[c]))
  /\ sum' = Added(Head(queue[c]))
  /\ queue' = [queue EXCEPT ![c] = Tail(@)]
  /\ UNCHANGED <<program, sent, held, eosFrom, running, pool, vectors>>

(* svc of another node begins, and ends by sending the result: dotProd,     *)
(* the squares, and the emitter and the collector FastFlow adds.            *)
Begin(c) ==
  /\ c[2] \notin {net.source, net.sink}
  /\ Receives(c) /\ Head(queue[c]) # EOS
  /\ held[c[2]] = EOS
  /\ held' = [held EXCEPT ![c[2]] = Head(queue[c])]
  /\ queue' = [queue EXCEPT ![c] = Tail(@)]
  /\ UNCHANGED <<program, sent, eosFrom, running, pool, vectors, sum>>

Forward(n) ==
  /\ ~OpenMP /\ held[n] # EOS
  /\ \E c \in Out(n) : Room(c) /\ queue' = Put(queue, c, held[n])
  /\ held' = [held EXCEPT ![n] = EOS]
  /\ UNCHANGED <<program, sent, eosFrom, running, pool, vectors, sum>>

InputEnded(n, ended) == In(n) \subseteq ended

(* EOS: the last one ends the node and goes on to its successors.           *)
ReceiveEOS(c) ==
  /\ Receives(c) /\ Head(queue[c]) = EOS
  /\ held[c[2]] = EOS
  /\ eosFrom' = eosFrom \cup {c}
  /\ LET q == [queue EXCEPT ![c] = Tail(@)] IN
     IF InputEnded(c[2], eosFrom')
     THEN /\ running' = running \ {c[2]}
          /\ queue' = IF c[2] = net.source THEN q ELSE Broadcast(q, c[2])
     ELSE queue' = q /\ UNCHANGED running
  /\ UNCHANGED <<program, sent, held, pool, vectors, sum>>

NodeStep(n) == Forward(n) \/ \E c \in In(n) : Sum(c) \/ Begin(c) \/ ReceiveEOS(c)
SourceStep == Send \/ SendEOS

-----------------------------------------------------------------------------
(* OpenMP: the single construct, then its barrier; a task keeps its item    *)
(* firstprivate.                                                            *)
CreateTask ==
  /\ OpenMP
  /\ sent < length
  /\ sent' = sent + 1
  /\ pool' = pool \cup {sent'}
  /\ UNCHANGED <<program, queue, held, eosFrom, running, vectors, sum>>

(* V1 and V2 of the task: pairs[omp_get_thread_num()] in omp2, variables of *)
(* the task in omp.                                                         *)
Pair(n) == n

(* A thread that has nothing to do takes a task and fills V1 and V2.        *)
BeginTask(n) ==
  /\ OpenMP /\ n \in running /\ held[n] = EOS
  /\ \E i \in pool :
       /\ pool' = pool \ {i}
       /\ held' = [held EXCEPT ![n] = i]
       /\ vectors' = [vectors EXCEPT ![Pair(n)] = @ \cup {i}]
  /\ UNCHANGED <<program, sent, queue, eosFrom, running, sum>>

(* The product of what is in V1 and V2 now, cleared, and the atomic update. *)
EndTask(n) ==
  /\ OpenMP /\ n \in running /\ held[n] # EOS
  /\ sum' = IF vectors[Pair(n)] = {held[n]} THEN Added(held[n]) ELSE sum
  /\ vectors' = [vectors EXCEPT ![Pair(n)] = {}]
  /\ held' = [held EXCEPT ![n] = EOS]
  /\ UNCHANGED <<program, sent, queue, eosFrom, running, pool>>

(* The barrier at the end of the region: all tasks are done.                *)
RegionEnds ==
  /\ OpenMP /\ running # {}
  /\ sent = length /\ pool = {} /\ \A n \in Workers : held[n] = EOS
  /\ running' = {}
  /\ UNCHANGED <<program, sent, queue, held, eosFrom, pool, vectors, sum>>

ThreadStep(n) == BeginTask(n) \/ EndTask(n)
Region == CreateTask \/ RegionEnds
Over == net.sink \notin running
Ended == running = {} /\ UNCHANGED vars

Next == \/ SourceStep \/ Region
        \/ \E n \in Node : NodeStep(n)
        \/ \E n \in Workers \cap Node : ThreadStep(n)
        \/ Ended

-----------------------------------------------------------------------------
(* EOS is behind all the items of a channel, and nothing is on its way when *)
(* the sink has ended.                                                      *)
InFlight ==
  {held[n] : n \in DOMAIN held} \cup UNION {ToSet(queue[c]) : c \in DOMAIN queue}

NothingBehindEOS ==
  /\ \A c \in DOMAIN queue : \A k \in DOMAIN queue[c] :
        queue[c][k] = EOS => k = Len(queue[c])
  /\ Over => InFlight \subseteq {EOS}

(* One worker, or a collector that takes turns: the results come in the     *)
(* order of the items.                                                      *)
InOrder ==
  program \in {"pipe", "pipe_square", "farm3_ordered"} =>
    \A i, j \in Item : i < j /\ sum[j] > 0 => sum[i] > 0
=============================================================================
