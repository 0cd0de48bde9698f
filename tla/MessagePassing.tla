----------------------------- MODULE MessagePassing ----------------------------
(***************************************************************************)
(* The programs of MPI_basics, example9 and example11 whose ranks exchange *)
(* messages.  Every definition with a rank as its parameter is the main()  *)
(* of a program from MPI_Init to MPI_Finalize.                             *)
(*                                                                         *)
(* Of MPI they see that messages between two ranks keep their order, that  *)
(* a standard send may return at once (eager) or wait for its receiver     *)
(* (rendezvous), and that a rank leaves a collective call when those it    *)
(* needs something from are in it.                                         *)
(***************************************************************************)
EXTENDS Integers, Sequences, FiniteSets

CONSTANTS
  num_ping_pong,   \* the argument of ping_pong_ring_nb
  n,               \* trapezoid: the subintervals
  rows, MaxSweeps  \* jacobi_1d: the rows; it converges within MaxSweeps sweeps

VARIABLES
  program,   \* the program that was started
  size,      \* MPI_Comm_size
  eager,     \* whether the library copies a message when it is sent
  level,     \* the support for threads MPI_Init_thread provides
  rank,      \* rank[r]: the memory of rank r; "at" is where it is
  net,       \* net[<<s, d>>]: what s sent to d and d did not receive yet
  coll       \* coll[r]: what r gave to each collective call it entered

vars == <<program, size, eager, level, rank, net, coll>>

Rank == 0 .. size - 1

Quiet ==
  /\ net = [p \in Rank \X Rank |-> <<>>]
  /\ coll = [r \in Rank |-> <<>>]

(* The buffer a message is read from: a variable of the rank, an element of *)
(* one, or data nobody writes to.                                           *)
Constant == <<>>

(* val is what the buffer holds when the send is called.                    *)
Message(tag, buffer, val) == [tag |-> tag, buffer |-> buffer, val |-> val]

Isend(s, d, m) == net' = [net EXCEPT ![<<s, d>>] = Append(@, m)]

(* A blocking send has returned.                                            *)
SendReturns(s, d) == eager \/ net[<<s, d>>] = <<>>

Arrived(s, d, tags) == net[<<s, d>>] # <<>> /\ Head(net[<<s, d>>]).tag \in tags

(* Without a copy the receiver reads what the sender's buffer holds now.    *)
Received(s, d) ==
  LET m == Head(net[<<s, d>>])
  IN  IF eager \/ m.buffer = Constant THEN m.val
      ELSE IF Len(m.buffer) = 1 THEN rank[s][m.buffer[1]]
      ELSE rank[s][m.buffer[1]][m.buffer[2]]

Consume(s, d) == net' = [net EXCEPT ![<<s, d>>] = Tail(@)]

EnterCollective(r, v) == coll' = [coll EXCEPT ![r] = Append(@, v)]

(* The ranks in Q have entered the collective call r is in.                 *)
AllIn(r, Q) == \A q \in Q : Len(coll[q]) >= Len(coll[r])
GivenBy(q, r) == coll[q][Len(coll[r])]

(* Rank r goes to where with the memory m.                                  *)
Goto(r, m, where) == rank' = [rank EXCEPT ![r] = [m EXCEPT !.at = where]]

(* A barrier, entered and left.                                             *)
Barrier(r, after) ==
  LET me == rank[r]
  IN  \/ /\ me.at = "barrier"
         /\ EnterCollective(r, 0) /\ Goto(r, me, "in barrier") /\ UNCHANGED net
      \/ /\ me.at = "in barrier" /\ AllIn(r, Rank)
         /\ Goto(r, me, after) /\ UNCHANGED <<net, coll>>

(* MPI_Init_thread asks for MPI_THREAD_FUNNELED.  What the program checks is *)
(* that MPI_Query_thread says the same as MPI_Init_thread.                  *)
MPI_THREAD_SINGLE == 0
MPI_THREAD_FUNNELED == 1
ThreadLevelOk(claimed, provided) == claimed = provided

InitThread(r, after) ==
  LET me == rank[r]
      claimed == level
  IN  /\ me.at = "init"
      /\ Goto(r, me, IF ThreadLevelOk(claimed, level) THEN after ELSE "abort")
      /\ UNCHANGED <<net, coll>>

Ended == \A r \in Rank : rank[r].at = "end"

-----------------------------------------------------------------------------
PINGPONG_MAX == 3
msg_tag == 0
eos_tag == 1

-----------------------------------------------------------------------------
(* PingPong.cpp, PingPongBarrier.cpp                                        *)
partner_rank(r) == IF r % 2 = 0 THEN r + 1 ELSE r - 1

PingPongInit(r) ==
  [at |-> IF program = "PingPong" THEN "loop" ELSE "barrier", pingpong_count |-> 0]

Ball(count) == count + 1

PingPong(r) ==
  LET me == rank[r]
      p == partner_rank(r)
      c == me.pingpong_count
      played(k) == [me EXCEPT !.pingpong_count = k]
  IN  /\ UNCHANGED coll
      /\ \/ /\ me.at = "loop" /\ c < PINGPONG_MAX /\ r % 2 = c % 2
            /\ Isend(r, p, Message(0, <<"pingpong_count">>, Ball(c)))
            /\ Goto(r, played(Ball(c)), "sending")
         \/ /\ me.at = "sending" /\ SendReturns(r, p)
            /\ Goto(r, me, "loop") /\ UNCHANGED net
         \/ /\ me.at = "loop" /\ c < PINGPONG_MAX /\ r % 2 # c % 2 /\ Arrived(p, r, {0})
            /\ Consume(p, r) /\ Goto(r, played(Received(p, r)), "loop")
         \/ /\ me.at = "loop" /\ c >= PINGPONG_MAX
            /\ Goto(r, me, "end") /\ UNCHANGED net

PingPongBarrier(r) == Barrier(r, "loop") \/ PingPong(r)

-----------------------------------------------------------------------------
(* Ring.cpp: in C++ (0 - 1) % world_size is -1, in Open MPI the value of     *)
(* MPI_ANY_SOURCE: rank 0 receives from whoever sends.                      *)
RingInit(r) == [at |-> IF r = 0 THEN "send" ELSE "recv", token |-> IF r = 0 THEN 19 ELSE 0]

Ring(r) ==
  LET me == rank[r]
      source == IF r = 0 THEN Rank ELSE {r - 1}
      next == (r + 1) % size
  IN  /\ UNCHANGED coll
      /\ \/ /\ me.at \in {"recv", "last"}
            /\ \E s \in source :
                 /\ Arrived(s, r, {0}) /\ Consume(s, r)
                 /\ Goto(r, [me EXCEPT !.token = Received(s, r)],
                         IF r = 0 THEN "end" ELSE "send")
         \/ /\ me.at = "send"
            /\ Isend(r, next, Message(0, <<"token">>, me.token)) /\ Goto(r, me, "sending")
         \/ /\ me.at = "sending" /\ SendReturns(r, next)
            /\ Goto(r, me, IF r = 0 THEN "last" ELSE "end") /\ UNCHANGED net

-----------------------------------------------------------------------------
(* ping_pong_ring_nb.cpp: what is sent and what is received share a buffer. *)
RingNbInit(r) == [at |-> "loop", ping_pong_count |-> 0]

PongTo(r) == (r + size - 1) % size

RingNb(r) ==
  LET me == rank[r]
      next_id == (r + 1) % size
      prev_id == (r + size - 1) % size
      c == me.ping_pong_count
      from(s) == [me EXCEPT !.ping_pong_count = Received(s, r)]
      buffer == <<"ping_pong_count">>
  IN  /\ UNCHANGED coll
      /\ \/ /\ me.at = "loop" /\ c < num_ping_pong
            /\ Isend(r, next_id, Message(0, buffer, c + 1))
            /\ Goto(r, [me EXCEPT !.ping_pong_count = c + 1], "ping")
         \/ /\ me.at = "ping" /\ Arrived(prev_id, r, {0})
            /\ LET seen == from(prev_id)
                   pong == Message(0, buffer, seen.ping_pong_count)
                   rest == [net EXCEPT ![<<prev_id, r>>] = Tail(@)]
               IN  /\ net' = [rest EXCEPT ![<<r, PongTo(r)>>] = Append(@, pong)]
                   /\ Goto(r, seen, "pong")
         \/ /\ me.at = "pong" /\ Arrived(next_id, r, {0})
            /\ Consume(next_id, r) /\ Goto(r, from(next_id), "loop")
         \/ /\ me.at = "loop" /\ c >= num_ping_pong
            /\ Goto(r, me, "end") /\ UNCHANGED net

-----------------------------------------------------------------------------
(* send-recv.cpp: ranks above 1 have nothing to do.                         *)
SendRecvInit(r) ==
  [at |-> IF r = 0 THEN "send" ELSE IF r = 1 THEN "recv" ELSE "end",
   message |-> IF r = 0 THEN "Hello, there" ELSE ""]

SendRecv(r) ==
  LET me == rank[r]
  IN  /\ UNCHANGED coll
      /\ \/ /\ me.at = "send"
            /\ Isend(0, 1, Message(99, <<"message">>, me.message)) /\ Goto(r, me, "sending")
         \/ /\ me.at = "sending" /\ SendReturns(0, 1)
            /\ Goto(r, me, "end") /\ UNCHANGED net
         \/ /\ me.at = "recv" /\ Arrived(0, 1, {99})
            /\ Consume(0, 1) /\ Goto(r, [me EXCEPT !.message = Received(0, 1)], "end")

-----------------------------------------------------------------------------
(* trapezoid.cpp: an area is how often each subinterval is in it.           *)
local_start(r) == (n * r) \div size

trap(r) ==
  [j \in 0 .. n - 1 |-> IF local_start(r) <= j /\ j < local_start(r + 1) THEN 1 ELSE 0]

TrapezoidInit(r) ==
  [at |-> IF r = 0 THEN "collect" ELSE "send", partial_result |-> trap(r),
   result |-> trap(r), p |-> 1]

Trapezoid(r) ==
  LET me == rank[r]
  IN  /\ UNCHANGED coll
      /\ \/ /\ me.at = "send"
            /\ Isend(r, 0, Message(100, <<"partial_result">>, me.partial_result))
            /\ Goto(r, me, "sending")
         \/ /\ me.at = "sending" /\ SendReturns(r, 0)
            /\ Goto(r, me, "end") /\ UNCHANGED net
         \/ /\ me.at = "collect" /\ me.p < size /\ Arrived(me.p, 0, {100})
            /\ Consume(me.p, 0)
            /\ LET part == Received(me.p, 0)
               IN  Goto(r, [me EXCEPT !.result = [j \in 0 .. n - 1 |-> @[j] + part[j]],
                                      !.p = @ + 1], "collect")
         \/ /\ me.at = "collect" /\ me.p >= size
            /\ Goto(r, me, "end") /\ UNCHANGED net

(* trapezoidReduce.cpp, and trapezoid_mpi+omp.cpp, whose trap() shares the   *)
(* subintervals out again, to threads with a private area each.             *)
ReduceInit(r) ==
  [at |-> IF program = "trapezoidReduce" THEN "reduce" ELSE "init", result |-> 0]

TrapezoidReduce(r) ==
  LET me == rank[r]
      all(j) == Cardinality({q \in Rank : GivenBy(q, r)[j] = 1})
  IN  /\ UNCHANGED net
      /\ \/ /\ me.at = "reduce"
            /\ EnterCollective(r, trap(r)) /\ Goto(r, me, "in reduce")
         \/ /\ me.at = "in reduce" /\ (r = 0 => AllIn(r, Rank))
            /\ Goto(r, [me EXCEPT !.result = IF r = 0 THEN [j \in 0 .. n - 1 |-> all(j)] ELSE @],
                    "end")
            /\ UNCHANGED coll

TrapezoidOmp(r) == InitThread(r, "barrier") \/ Barrier(r, "reduce") \/ TrapezoidReduce(r)

-----------------------------------------------------------------------------
(* master-workers.cpp: the number of requests and what they ask for are      *)
(* random; rank 0 is the server.                                            *)
ServerInit == [at |-> "serve", target |-> 0, source |-> 0, n_eos |-> 0]

WorkerInit(r, noreq) ==
  [at |-> "loop", request |-> 0, asked |-> 0, rep |-> 0, noreq |-> noreq]

(* Mutant: the server counts itself among the workers.                      *)
MutLastEos(k) == k >= size

(* Mutant: the first EOS ends the server.                                   *)
MutFirstEos(k) == k >= 1

LastEos(k) == k >= size - 1

Server(r) ==
  LET me == rank[r]
  IN  /\ UNCHANGED coll
      /\ \/ /\ me.at = "serve"
            /\ \E s \in Rank :
                 \/ /\ Arrived(s, 0, {eos_tag}) /\ Consume(s, 0)
                    /\ Goto(r, [me EXCEPT !.n_eos = @ + 1],
                            IF LastEos(me.n_eos + 1) THEN "end" ELSE "serve")
                 \/ /\ Arrived(s, 0, {msg_tag}) /\ Consume(s, 0)
                    /\ Goto(r, [me EXCEPT !.target = Received(s, 0) * Received(s, 0),
                                          !.source = s], "answer")
         \/ /\ me.at = "answer"
            /\ Isend(0, me.source, Message(msg_tag, <<"target">>, me.target))
            /\ Goto(r, me, "sending")
         \/ /\ me.at = "sending" /\ SendReturns(0, me.source)
            /\ Goto(r, me, "serve") /\ UNCHANGED net

Worker(r) ==
  LET me == rank[r]
  IN  /\ UNCHANGED coll
      /\ \/ /\ me.at = "loop" /\ me.rep < me.noreq
            /\ \E x \in {0, 1} :
                 /\ Isend(r, 0, Message(msg_tag, <<"request">>, r + x))
                 /\ Goto(r, [me EXCEPT !.request = r + x, !.asked = r + x], "sending")
         \/ /\ me.at = "sending" /\ SendReturns(r, 0)
            /\ Goto(r, me, "recv") /\ UNCHANGED net
         \/ /\ me.at = "recv" /\ Arrived(0, r, {msg_tag, eos_tag})
            /\ Consume(0, r)
            /\ Goto(r, [me EXCEPT !.request = Received(0, r), !.rep = @ + 1], "loop")
         \/ /\ me.at = "loop" /\ me.rep >= me.noreq
            /\ Isend(r, 0, Message(eos_tag, <<"request">>, me.request))
            /\ Goto(r, me, "last")
         \/ /\ me.at = "last" /\ SendReturns(r, 0)
            /\ Goto(r, me, "end") /\ UNCHANGED net

-----------------------------------------------------------------------------
(* jacobi_1d.cpp: a row is the number of sweeps that made it; Torn is a row  *)
(* computed from neighbours of another sweep.                               *)
Torn == 0 - 1

myRows(r) == (rows \div size) + (IF r < rows % size THEN 1 ELSE 0)
displs[r \in Nat] == IF r = 0 THEN 0 ELSE displs[r - 1] + myRows(r - 1)

Border(j) == j = 0 \/ j = rows - 1

Laplacian(j, above, here, below, k) ==
  IF here = k /\ (Border(j - 1) \/ above = k) /\ (Border(j + 1) \/ below = k)
  THEN k + 1 ELSE Torn

(* Row l of rank r after sweep k + 1: the first and the last row of the      *)
(* matrix stay, and so does the row of a rank that has only one.             *)
Swept(r, me, l) ==
  LET j == displs[r] + l
      above == IF l = 0 THEN me.prevRow ELSE me.myData[l - 1]
      below == IF l = myRows(r) - 1 THEN me.nextRow ELSE me.myData[l + 1]
  IN  IF Border(j) \/ myRows(r) = 1 THEN me.myData[l]
      ELSE Laplacian(j, above, me.myData[l], below, me.k)

JacobiInit(r, sweeps) ==
  [at |-> "send", myData |-> [l \in 0 .. myRows(r) - 1 |-> 0], prevRow |-> 0, nextRow |-> 0,
   k |-> 0, sweeps |-> sweeps]

Jacobi(r) ==
  LET me == rank[r]
      up == r > 0
      down == r < size - 1
      last == myRows(r) - 1
      to(d, l) == <<Message(0, <<"myData", l>>, me.myData[l])>>
  IN  \/ /\ me.at = "send"
         /\ net' = [e \in DOMAIN net |->
                      IF up /\ e = <<r, r - 1>> THEN net[e] \o to(r - 1, 0)
                      ELSE IF down /\ e = <<r, r + 1>> THEN net[e] \o to(r + 1, last)
                      ELSE net[e]]
         /\ Goto(r, me, IF up THEN "prev" ELSE IF down THEN "next" ELSE "sweep")
         /\ UNCHANGED coll
      \/ /\ me.at = "prev" /\ Arrived(r - 1, r, {0}) /\ Consume(r - 1, r)
         /\ Goto(r, [me EXCEPT !.prevRow = Received(r - 1, r)], IF down THEN "next" ELSE "sweep")
         /\ UNCHANGED coll
      \/ /\ me.at = "next" /\ Arrived(r + 1, r, {0}) /\ Consume(r + 1, r)
         /\ Goto(r, [me EXCEPT !.nextRow = Received(r + 1, r)], "sweep")
         /\ UNCHANGED coll
      \/ /\ me.at = "sweep"
         /\ EnterCollective(r, 0)
         /\ Goto(r, [me EXCEPT !.myData = [l \in DOMAIN @ |-> Swept(r, me, l)], !.k = @ + 1],
                 "error")
         /\ UNCHANGED net
      \/ /\ me.at = "error" /\ AllIn(r, Rank)
         /\ Goto(r, me, IF me.k < me.sweeps THEN "send" ELSE "gather")
         /\ UNCHANGED <<net, coll>>
      \/ /\ me.at = "gather"
         /\ EnterCollective(r, me.myData) /\ Goto(r, me, "gathering") /\ UNCHANGED net
      \/ /\ me.at = "gathering" /\ (r = 0 => AllIn(r, Rank))
         /\ Goto(r, me, "end") /\ UNCHANGED <<net, coll>>

(* jacobi_seq.cpp: a sweep updates every row but the first and the last.     *)
Sequential(j, k) == IF Border(j) THEN 0 ELSE k

(* The matrix MPI_Gatherv leaves in rank 0.                                 *)
Gathered ==
  [j \in 0 .. rows - 1 |->
     LET r == CHOOSE q \in Rank : displs[q] <= j /\ j < displs[q] + myRows(q)
     IN  coll[r][Len(coll[r])][j - displs[r]]]

-----------------------------------------------------------------------------
(* What every program has computed when its ranks are at their end.         *)
Computed ==
  CASE program \in {"PingPong", "PingPongBarrier"} ->
         \A r \in Rank : rank[r].at = "end" => rank[r].pingpong_count = PINGPONG_MAX
    [] program = "Ring" -> \A r \in Rank : rank[r].at = "end" => rank[r].token = 19
    [] program = "ping_pong_ring_nb" ->
         \A q, r \in Rank : rank[q].at = rank[r].at =>
           rank[q].ping_pong_count - rank[r].ping_pong_count \in {-1, 0, 1}
    [] program = "send-recv" -> rank[1].at = "end" => rank[1].message = "Hello, there"
    [] program \in {"trapezoid", "trapezoidReduce", "trapezoid_mpi+omp"} ->
         rank[0].at = "end" => rank[0].result = [j \in 0 .. n - 1 |-> 1]
    [] program = "master-workers" ->
         \A r \in Rank \ {0} :
           rank[r].at = "loop" /\ rank[r].rep > 0 => rank[r].request = rank[r].asked * rank[r].asked
    [] OTHER -> TRUE

(* jacobi_1d.cpp: the rows of a rank, and those it has received to compute   *)
(* with, are the ones of the sequential program after the same sweep.       *)
JacobiRows ==
  program = "jacobi_1d" =>
    \A r \in Rank :
      LET me == rank[r]
      IN  /\ \A l \in DOMAIN me.myData : me.myData[l] = Sequential(displs[r] + l, me.k)
          /\ me.at = "sweep" /\ r > 0 => me.prevRow = Sequential(displs[r] - 1, me.k)
          /\ me.at = "sweep" /\ r < size - 1 => me.nextRow = Sequential(displs[r + 1], me.k)

(* Rank 0 of jacobi_1d has the matrix of the sequential program.            *)
JacobiGathered ==
  program = "jacobi_1d" /\ rank[0].at = "end" =>
    \A j \in 0 .. rows - 1 : Gathered[j] = Sequential(j, rank[0].k)
=============================================================================
