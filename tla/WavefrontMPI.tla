----------------------------- MODULE WavefrontMPI ------------------------------
(***************************************************************************)
(* Wf_mpi.cpp: every rank holds the matrix.  The first diagonals are       *)
(* computed by every rank, the middle ones are split among the ranks and   *)
(* exchanged with MPI_Allgather, the last ones are computed by rank 0.     *)
(* Between two collectives a rank touches only its own memory, so its work *)
(* on one diagonal is one step.                                            *)
(***************************************************************************)
EXTENDS Integers, FiniteSets

CONSTANTS
  N,          \* size of the matrix
  mpiSize     \* number of ranks

Rank == 0 .. mpiSize - 1

VARIABLES
  M,        \* M[r]: the matrix of rank r
  i,        \* i[r]: the diagonal rank r works on
  phase,    \* "first", "split", "gather", "last" or "end"
  local     \* local[r]: the values rank r contributes to the Allgather

vars == <<M, i, phase, local>>

W(r) == INSTANCE Wavefront WITH M <- M[r]
Cell == W(0)!Cell
Diag(d) == W(0)!Diag(d)
Value == W(0)!Value

low_threshold == mpiSize
up_threshold == N - (mpiSize - 1)

(* Mutant: the remainder of the division is dropped.                        *)
MutTaskSize(d) == (N - d) \div mpiSize

task_size(d) == (N - d) \div mpiSize + 1

(* The elements of diagonal d whose values rank r puts in local_values.     *)
Assigned(r, d) ==
  LET from == r * task_size(d)
      to == IF (r + 1) * task_size(d) < N - d THEN (r + 1) * task_size(d) ELSE N - d
  IN  from .. to - 1

(* A whole diagonal in place; no element of it reads another one of it.     *)
ComputeDiagonal(m, d) ==
  [c \in Cell |-> IF c \in Diag(d) THEN W(0)!DotProduct(m, c) ELSE m[c]]

(* Where a rank goes when its phase has no diagonal left.                   *)
Enter(r, d) ==
  IF d < low_threshold THEN "first"
  ELSE IF d < up_threshold THEN "split"
  ELSE IF r = 0 THEN "last" ELSE "end"

(* Rank 0 begins the last phase at up_threshold, whatever was done before.  *)
Advance(r, d) ==
  /\ phase' = [phase EXCEPT ![r] = Enter(r, d)]
  /\ i' = [i EXCEPT ![r] = IF Enter(r, d) = "last" THEN up_threshold ELSE d]

MPIInit ==
  /\ M = [r \in Rank |-> W(0)!InitialM]
  /\ i = [r \in Rank |-> IF Enter(r, 1) = "last" THEN up_threshold ELSE 1]
  /\ phase = [r \in Rank |-> Enter(r, 1)]
  /\ local = [r \in Rank |-> <<>>]

FirstDiagonal(r) ==
  /\ phase[r] = "first"
  /\ M' = [M EXCEPT ![r] = ComputeDiagonal(@, i[r])]
  /\ Advance(r, i[r] + 1)
  /\ UNCHANGED local

(* Mutant: the slots of local_values start at the matrix index.             *)
MutLocalValues(r, d) ==
  [s \in 0 .. task_size(d) - 1 |->
     IF s \in Assigned(r, d) THEN W(0)!DotProduct(M[r], <<d, s>>) ELSE "zero"]

(* local_values, filled from slot 0.                                        *)
LocalValues(r, d) ==
  [s \in 0 .. task_size(d) - 1 |->
     IF r * task_size(d) + s \in Assigned(r, d)
     THEN W(0)!DotProduct(M[r], <<d, r * task_size(d) + s>>)
     ELSE "zero"]

ComputeLocal(r) ==
  /\ phase[r] = "split"
  /\ local' = [local EXCEPT ![r] = LocalValues(r, i[r])]
  /\ phase' = [phase EXCEPT ![r] = "gather"]
  /\ UNCHANGED <<M, i>>

(* MPI_Allgather: once every rank is in it, all of them have diag_values,   *)
(* the blocks in rank order.                                                *)
diag_values(d) ==
  [s \in 0 .. mpiSize * task_size(d) - 1 |-> local[s \div task_size(d)][s % task_size(d)]]

Allgather ==
  /\ \A r \in Rank : phase[r] = "gather"
  /\ M' = [r \in Rank |-> [c \in Cell |->
             IF c \in Diag(i[r]) THEN diag_values(i[r])[c[2]] ELSE M[r][c]]]
  /\ phase' = [r \in Rank |-> Enter(r, i[r] + 1)]
  /\ i' = [r \in Rank |-> IF Enter(r, i[r] + 1) = "last" THEN up_threshold ELSE i[r] + 1]
  /\ local' = [r \in Rank |-> <<>>]

InMatrix(d) == d < N

LastDiagonal(r) ==
  /\ phase[r] = "last" /\ InMatrix(i[r])
  /\ M' = [M EXCEPT ![r] = ComputeDiagonal(@, i[r])]
  /\ i' = [i EXCEPT ![r] = @ + 1]
  /\ UNCHANGED <<phase, local>>

Finish(r) ==
  /\ phase[r] = "last" /\ ~InMatrix(i[r])
  /\ phase' = [phase EXCEPT ![r] = "end"]
  /\ UNCHANGED <<M, i, local>>

RankStep(r) == FirstDiagonal(r) \/ ComputeLocal(r) \/ LastDiagonal(r) \/ Finish(r)
Finalized == (\A r \in Rank : phase[r] = "end") /\ UNCHANGED vars

MPINext == (\E r \in Rank : RankStep(r)) \/ Allgather \/ Finalized

(* Every rank is a process of its own.                                      *)
MPISpec ==
  /\ MPIInit /\ [][MPINext]_vars
  /\ WF_vars(Allgather) /\ \A r \in Rank : WF_vars(RankStep(r))

-----------------------------------------------------------------------------
(* Every rank that has left the split phase, or works in it, holds the      *)
(* wavefront of all the earlier diagonals: an Allgather that puts a value   *)
(* in the wrong slot, or a phase that starts too late, shows here.          *)
Replicated ==
  \A r \in Rank : \A c \in Cell :
    c[1] < (IF phase[r] = "end" /\ r # 0 THEN up_threshold ELSE i[r]) => M[r][c] = "ok"

(* Rank 0 ends with the matrix of Wf_seq.cpp.                               *)
RootCorrect == <>(phase[0] = "end" /\ \A c \in Cell : M[0][c] = "ok")
=============================================================================
