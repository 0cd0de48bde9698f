------------------------------ MODULE GridProducts -----------------------------
(***************************************************************************)
(* mm_2d.cpp, summa.cpp and summa_omp.cpp: C = A * B on a square grid of   *)
(* ranks.  A block is its place in its matrix; a product of blocks is the   *)
(* pair of them, a block of C the sequence of the products added to it.     *)
(***************************************************************************)
EXTENDS MessagePassing

CONSTANT gridDim

Row(r) == r \div gridDim
Col(r) == r % gridDim
Grid == 0 .. gridDim - 1

(* MPI_Comm_split by row with the column as key, and the other way round.   *)
rowComm(r) == {q \in Rank : Row(q) = Row(r)}
colComm(r) == {q \in Rank : Col(q) = Col(r)}
InRow(r, l) == CHOOSE q \in rowComm(r) : Col(q) = l
InCol(r, l) == CHOOSE q \in colComm(r) : Row(q) = l

GridInit(r) ==
  [at |-> IF program = "summa_omp" THEN "init" ELSE "barrier", i |-> 0, myA |-> <<>>, myB |-> <<>>, buffA |-> <<>>, buffB |-> <<>>,
   myC |-> <<>>, C |-> [b \in {} |-> 0], p |-> 1]

Block(b) == Message(0, Constant, b)

(* Rank 0 posts blocks(j) to every rank j, itself included, and waits for    *)
(* none of the sends.                                                       *)
Scatter(blocks(_)) ==
  net' = [e \in DOMAIN net |-> IF e[1] = 0 THEN net[e] \o blocks(e[2]) ELSE net[e]]

Start(r, first) == Barrier(r, IF r = 0 THEN "scatter" ELSE first)

Place(r) == <<Row(r), Col(r)>>

(* Rank 0 receives the blocks of C in rank order.                           *)
Finish(r) ==
  LET me == rank[r]
  IN  /\ UNCHANGED coll
      /\ \/ /\ me.at = "gather" /\ r # 0
            /\ Isend(r, 0, Message(0, <<"myC">>, me.myC)) /\ Goto(r, me, "sending")
         \/ /\ me.at = "sending" /\ SendReturns(r, 0)
            /\ Goto(r, me, "end") /\ UNCHANGED net
         \/ /\ me.at = "gather" /\ r = 0 /\ me.p < size /\ Arrived(me.p, 0, {0})
            /\ Consume(me.p, 0)
            /\ Goto(r, [me EXCEPT !.p = @ + 1,
                          !.C = [b \in DOMAIN @ \cup {Place(me.p)} |->
                                   IF b = Place(me.p) THEN Received(me.p, 0) ELSE @[b]]],
                    "gather")
         \/ /\ me.at = "gather" /\ r = 0 /\ me.p >= size
            /\ Goto(r, [me EXCEPT !.C = [b \in DOMAIN @ \cup {Place(0)} |->
                                           IF b = Place(0) THEN me.myC ELSE @[b]]], "end")
            /\ UNCHANGED net

-----------------------------------------------------------------------------
(* mm_2d.cpp: a rank gets the rows and the columns its block of C needs.    *)
RowsFor(j) == <<Block(<<"A", Row(j)>>)>>
ColumnsFor(j) == <<Block(<<"B", Col(j)>>)>>

Mm2d(r) ==
  LET me == rank[r]
  IN  \/ Start(r, "recvA")
      \/ /\ me.at = "scatter"
         /\ Scatter(RowsFor) /\ Goto(r, me, "recvA") /\ UNCHANGED coll
      \/ /\ me.at = "recvA" /\ Arrived(0, r, {0}) /\ Consume(0, r)
         /\ Goto(r, [me EXCEPT !.myA = Received(0, r)], IF r = 0 THEN "columns" ELSE "recvB")
         /\ UNCHANGED coll
      \/ /\ me.at = "columns"
         /\ Scatter(ColumnsFor) /\ Goto(r, me, "recvB") /\ UNCHANGED coll
      \/ /\ me.at = "recvB" /\ Arrived(0, r, {0}) /\ Consume(0, r)
         /\ Goto(r, [me EXCEPT !.myB = Received(0, r),
                               !.myC = << <<me.myA, Received(0, r)>> >>], "gather")
         /\ UNCHANGED coll
      \/ Finish(r)

-----------------------------------------------------------------------------
(* summa.cpp: in turn i the i-th rank of a row broadcasts its block of A    *)
(* along the row, and the i-th of a column its block of B.                  *)
BlocksFor(j) == <<Block(<<"A", Row(j), Col(j)>>), Block(<<"B", Row(j), Col(j)>>)>>

Bcast(r, where, root, buff, value, after) ==
  LET me == rank[r]
  IN  \/ /\ me.at = where
         /\ EnterCollective(r, value) /\ Goto(r, me, "in " \o where) /\ UNCHANGED net
      \/ /\ me.at = "in " \o where /\ AllIn(r, {root})
         /\ Goto(r, [me EXCEPT ![buff] = GivenBy(root, r)], after) /\ UNCHANGED <<net, coll>>

(* Mutant: the products of a turn are computed before the second broadcast. *)
MutMultiply(me) == [me EXCEPT !.myC = Append(@, <<me.buffA, me.myB>>), !.i = @ + 1]

Multiply(me) == [me EXCEPT !.myC = Append(@, <<me.buffA, me.buffB>>), !.i = @ + 1]

Summa(r) ==
  LET me == rank[r]
  IN  \/ Start(r, "recvA")
      \/ /\ me.at = "scatter"
         /\ Scatter(BlocksFor) /\ Goto(r, me, "recvA") /\ UNCHANGED coll
      \/ /\ me.at = "recvA" /\ Arrived(0, r, {0}) /\ Consume(0, r)
         /\ Goto(r, [me EXCEPT !.myA = Received(0, r)], "recvB") /\ UNCHANGED coll
      \/ /\ me.at = "recvB" /\ Arrived(0, r, {0}) /\ Consume(0, r)
         /\ Goto(r, [me EXCEPT !.myB = Received(0, r)], "split") /\ UNCHANGED coll
      \/ /\ me.at = "split"
         /\ EnterCollective(r, 0) /\ Goto(r, me, "in split") /\ UNCHANGED net
      \/ /\ me.at = "in split" /\ AllIn(r, Rank)
         /\ Goto(r, me, "bcastA") /\ UNCHANGED <<net, coll>>
      \/ Bcast(r, "bcastA", InRow(r, me.i), "buffA", me.myA, "bcastB")
      \/ Bcast(r, "bcastB", InCol(r, me.i), "buffB", me.myB, "multiply")
      \/ /\ me.at = "multiply"
         /\ Goto(r, Multiply(me), IF me.i + 1 < gridDim THEN "bcastA" ELSE "gather")
         /\ UNCHANGED <<net, coll>>
      \/ Finish(r)

(* summa_omp.cpp: the rows of a block are computed by threads.              *)
SummaOmp(r) == InitThread(r, "barrier") \/ Summa(r)

-----------------------------------------------------------------------------
(* Block <<i, j>> of C is row i of A by column j of B.                      *)
ProductAt(i, j) ==
  IF program = "mm_2d" THEN << << <<"A", i>>, <<"B", j>> >> >>
  ELSE [l \in 1 .. gridDim |-> << <<"A", i, l - 1>>, <<"B", l - 1, j>> >>]

(* Rank 0 ends with the product of the two matrices.                        *)
ProductGathered ==
  program \in {"mm_2d", "summa", "summa_omp"} /\ rank[0].at = "end" =>
    rank[0].C = [b \in Grid \X Grid |-> ProductAt(b[1], b[2])]
=============================================================================
