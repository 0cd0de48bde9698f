------------------------------ MODULE ExternalSort ------------------------------
(***************************************************************************)
(* steffe_SortingAlg/main.cpp: a file too large for one node's memory is   *)
(* sorted by the ranks in slices, each into a temporary file (sortedRuns), *)
(* and rank 0 merges them (kMerge).  Jobs share the directory of temporary *)
(* files and tell theirs by an id drawn from the second they start in.     *)
(* Numbers are moved one at a time, without the buffers.                   *)
(***************************************************************************)
EXTENDS Integers, BagsExt, SequencesExt

CONSTANTS
  Job,
  Inputs,        \* the contents an input file may have
  Starts,        \* for each job, the second it may start in
  mpiSize,
  RAMNUM         \* how many numbers a rank can hold

Rank == 0 .. mpiSize - 1

VARIABLES
  input,         \* input[j]: the file to parse
  id,            \* id[j]
  loop,          \* loop[j][r]: l, the slices rank r has dealt with
  rank,          \* rank[j][r]: "slice", "open", "write" or "barrier"
  dir,           \* the temporary files in the directory
  content,       \* content[f]: what has been written to f
  merge,         \* merge[j], rank 0: "wait", "fill", "merge", "unlink", "done" or "abort"
  fds,           \* fds[j]: the files kMerge has open, those left to unlink
  minHeap,       \* minHeap[j]: pairs of a number and the file it is from
  nextRead,      \* nextRead[j][f]: where kMerge reads f next
  written,       \* written[j]: how many numbers kMerge has written
  final          \* final[j]: the file of the result

runVars == <<loop, rank, dir, content>>
mergeVars == <<merge, fds, minHeap, nextRead, written, final>>
vars == <<input, id, runVars, mergeVars>>

Sorted(s) == SortSeq(s, <)

(* main: the load balancer.                                                 *)
Slice(n) == n \div mpiSize

(* Mutant: the slices are not rounded up.                                   *)
MutSliceSize(n) == IF Slice(n) >= RAMNUM THEN RAMNUM ELSE Slice(n)

SliceSize(n) == IF Slice(n) >= RAMNUM THEN RAMNUM ELSE Slice(n) + 1

maxLoop(n) == IF Slice(n) >= RAMNUM THEN n \div (RAMNUM * mpiSize) + 1 ELSE 1

startOffset(n, r, l) == SliceSize(n) * (r + mpiSize * l)

(* A file's name: the job's id, and what mkstemp makes unique.              *)
Tmp == [id : {s[j] : s \in Starts, j \in Job}, job : Job, rank : Rank,
        l : 0 .. maxLoop(FoldSet(LAMBDA s, m : IF Len(s) > m THEN Len(s) ELSE m, 0, Inputs))]
TmpFile(j, r) == [id |-> id[j], job |-> j, rank |-> r, l |-> loop[j][r]]

(* The result for an earlier file of the same name and size may be there.   *)
Init ==
  /\ input \in [Job -> Inputs]
  /\ id \in Starts
  /\ loop = [j \in Job |-> [r \in Rank |-> 0]]
  /\ rank = [j \in Job |-> [r \in Rank |-> "slice"]]
  /\ dir = {} /\ content = [f \in Tmp |-> <<>>]
  /\ merge = [j \in Job |-> "wait"]
  /\ fds = [j \in Job |-> {}] /\ minHeap = [j \in Job |-> {}]
  /\ nextRead = [j \in Job |-> [f \in Tmp |-> 1]]
  /\ written = [j \in Job |-> 0]
  /\ final \in {[j \in Job |-> <<>>], [j \in Job |-> [k \in DOMAIN input[j] |-> 9]]}

Running(j) == merge[j] # "abort"
Move(j, r, from, to) == rank[j][r] = from /\ rank' = [rank EXCEPT ![j][r] = to]

-----------------------------------------------------------------------------
HasSlice(j, r) ==
  /\ loop[j][r] < maxLoop(Len(input[j]))
  /\ startOffset(Len(input[j]), r, loop[j][r]) < Len(input[j])

(* sortedRuns: mkstemp, after the slice has been read and sorted.           *)
MakeTmp(j, r) ==
  /\ Running(j) /\ HasSlice(j, r)
  /\ Move(j, r, "slice", "open")
  /\ dir' = dir \cup {TmpFile(j, r)}
  /\ UNCHANGED <<input, id, loop, content, mergeVars>>

(* MPI_File_open creates the file if it is not there any more.              *)
OpenTmp(j, r) ==
  /\ Running(j) /\ Move(j, r, "open", "write")
  /\ dir' = dir \cup {TmpFile(j, r)}
  /\ UNCHANGED <<input, id, loop, content, mergeVars>>

bigVect(j, r) ==
  LET len == Len(input[j])
      from == startOffset(len, r, loop[j][r])
      to == from + SliceSize(len)
  IN Sorted(SubSeq(input[j], from + 1, IF to < len THEN to ELSE len))

(* An empty file would be closed twice, which aborts the job.               *)
WriteTmp(j, r) ==
  /\ Running(j) /\ Move(j, r, "write", "slice")
  /\ content' = [content EXCEPT ![TmpFile(j, r)] = bigVect(j, r)]
  /\ merge' = [merge EXCEPT ![j] = IF bigVect(j, r) = <<>> THEN "abort" ELSE @]
  /\ loop' = [loop EXCEPT ![j][r] = @ + 1]
  /\ UNCHANGED <<input, id, dir, fds, minHeap, nextRead, written, final>>

Barrier(j, r) ==
  /\ Running(j) /\ ~HasSlice(j, r)
  /\ Move(j, r, "slice", "barrier")
  /\ UNCHANGED <<input, id, loop, dir, content, mergeVars>>

-----------------------------------------------------------------------------
(* kMerge, on rank 0 behind the barrier: every file with the job's id.      *)
OpenRuns(j) ==
  /\ merge[j] = "wait"
  /\ \A r \in Rank : rank[j][r] = "barrier"
  /\ fds' = [fds EXCEPT ![j] = {f \in dir : f.id = id[j]}]
  /\ merge' = [merge EXCEPT ![j] = "fill"]
  /\ UNCHANGED <<input, id, runVars, minHeap, nextRead, written, final>>

(* The first number of each file.                                           *)
FillHeap(j) ==
  /\ merge[j] = "fill"
  /\ LET filled == {f \in fds[j] : content[f] # <<>>} IN
     /\ minHeap' = [minHeap EXCEPT ![j] = {<<Head(content[f]), f>> : f \in filled}]
     /\ nextRead' = [nextRead EXCEPT ![j] = [f \in Tmp |-> IF f \in filled THEN 2 ELSE 1]]
  /\ merge' = [merge EXCEPT ![j] = "merge"]
  /\ UNCHANGED <<input, id, runVars, fds, written, final>>

(* Mutant: a max heap.                                                      *)
MutTop(heap) == {p \in heap : \A q \in heap : p[1] >= q[1]}

(* Ties are broken by the file descriptors, in any order.                   *)
Top(heap) == {p \in heap : \A q \in heap : p[1] <= q[1]}

(* The file of the result is not truncated: numbers of an earlier one are   *)
(* overwritten.                                                             *)
Overwrite(s, k, v) == IF k <= Len(s) THEN [s EXCEPT ![k] = v] ELSE Append(s, v)

MergeOne(j) ==
  /\ merge[j] = "merge"
  /\ \E top \in Top(minHeap[j]) :
       LET f == top[2]
           more == nextRead[j][f] <= Len(content[f])
       IN /\ minHeap' = [minHeap EXCEPT ![j] = (@ \ {top}) \cup
                           IF more THEN {<<content[f][nextRead[j][f]], f>>} ELSE {}]
          /\ nextRead' = [nextRead EXCEPT ![j][f] = IF more THEN @ + 1 ELSE @]
          /\ final' = [final EXCEPT ![j] = Overwrite(@, written[j] + 1, top[1])]
  /\ written' = [written EXCEPT ![j] = @ + 1]
  /\ UNCHANGED <<input, id, runVars, merge, fds>>

EndMerge(j) ==
  /\ merge[j] = "merge" /\ minHeap[j] = {}
  /\ merge' = [merge EXCEPT ![j] = "unlink"]
  /\ UNCHANGED <<input, id, runVars, fds, minHeap, nextRead, written, final>>

(* A file that has gone aborts the job.                                     *)
Unlink(j) ==
  /\ merge[j] = "unlink"
  /\ \E f \in fds[j] :
       /\ fds' = [fds EXCEPT ![j] = @ \ {f}]
       /\ dir' = dir \ {f}
       /\ merge' = [merge EXCEPT ![j] = IF f \in dir THEN @ ELSE "abort"]
  /\ UNCHANGED <<input, id, loop, rank, content, minHeap, nextRead, written, final>>

EndJob(j) ==
  /\ merge[j] = "unlink" /\ fds[j] = {}
  /\ merge' = [merge EXCEPT ![j] = "done"]
  /\ UNCHANGED <<input, id, runVars, fds, minHeap, nextRead, written, final>>

sortedRuns(j, r) == MakeTmp(j, r) \/ OpenTmp(j, r) \/ WriteTmp(j, r) \/ Barrier(j, r)
kMerge(j) ==
  OpenRuns(j) \/ FillHeap(j) \/ MergeOne(j) \/ EndMerge(j) \/ Unlink(j) \/ EndJob(j)

Ended(j) == merge[j] \in {"done", "abort"}

Next ==
  \/ \E j \in Job : kMerge(j) \/ \E r \in Rank : sortedRuns(j, r)
  \/ (\A j \in Job : Ended(j)) /\ UNCHANGED vars

Spec ==
  /\ Init /\ [][Next]_vars
  /\ \A j \in Job : WF_vars(kMerge(j)) /\ \A r \in Rank : WF_vars(sortedRuns(j, r))

-----------------------------------------------------------------------------
(* main.cpp:364, "Sorted file": the result is the input, sorted.            *)
SortedOutput == \A j \in Job : merge[j] = "done" => final[j] = Sorted(input[j])

(* While a job merges, what is written is sorted, nothing that is still to  *)
(* come is smaller, and the two together are the input: no number is lost   *)
(* between the slices, nor taken from another job's files.                  *)
MergedSoFar ==
  \A j \in Job : merge[j] = "merge" =>
    LET out == SubSeq(final[j], 1, written[j])
        unread(f) == SubSeq(content[f], nextRead[j][f], Len(content[f]))
        heads == {p[2] : p \in minHeap[j]}
    IN /\ out = Sorted(out)
       /\ \A p \in minHeap[j] :
            /\ written[j] > 0 => out[written[j]] <= p[1]
            /\ \A k \in DOMAIN unread(p[2]) : p[1] <= unread(p[2])[k]
       /\ ToBag(input[j]) =
            FoldSet(LAMBDA f, b : b (+) ToBag(unread(f)),
              FoldSet(LAMBDA p, b : BagAdd(b, p[1]), ToBag(out), minHeap[j]),
              fds[j])

-----------------------------------------------------------------------------
(* Two jobs that start in the same second.  With RAMNUM = 2 and two ranks,   *)
(* the inputs make a job use one slice and less, a slice per rank, and two   *)
(* slices of a rank.                                                         *)
FewInputs == { <<>>, <<1>>, <<3, 1, 2>>, <<2, 3, 1, 2, 1>> }
SameSecond == { [j \in Job |-> 1] }
=============================================================================
