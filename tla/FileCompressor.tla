----------------------------- MODULE FileCompressor ----------------------------
(***************************************************************************)
(* ffc_farm, the FastFlow file compressor of example7: a reader cuts big   *)
(* files into blocks, workers compress or decompress the blocks and write  *)
(* them to the disk, a writer counts the blocks of a file and puts the     *)
(* result together after the last one.  Of the disk this is kept: which    *)
(* files are there and whether they are whole.  Any system call on a file  *)
(* may fail, but for the unlinks of originals and of removeDir.            *)
(***************************************************************************)
EXTENDS Integers, FiniteSets, SequencesExt

CONSTANTS
  Files,      \* number of arguments
  Sizes,      \* Sizes[f]: the sizes argument f may have, in Mbyte
  Degree,     \* number of workers
  MaxFaults   \* files that may have failing calls, seen ones or unseen ones

File == 1 .. Files
Node == 1 .. Degree
NoTask == [file |-> 0, blockid |-> 0, nblocks |-> 0, size |-> 0]

VARIABLES
  options,    \* comp, REMOVE_ORIGIN and the threshold of the command line
  input,      \* input[f]: the argument f
  faults,     \* <<f, how>>: calls for f have failed, how the program took it
  argi, blk,  \* the reader's argument, and the blocks of it that were sent
  listed,     \* the tasks of the current argument
  tasks,      \* tasks in the workers' queues
  work,       \* work[w]: the task of worker w
  written,    \* tasks in the writer's queue
  M,          \* M[f]: blocks the writer has counted
  part, cut,  \* part[f]: the blocks of f that are files of their own, whole;
              \* cut[f]: those whose file has been truncated
  packed,     \* packed[f]: the parts of f compressed in its temporary directory
  dirV,       \* dirV[f]: entries the reader found in that directory
  target,     \* target[f]: the result, "none", "ok" or "bad"
  original,   \* the files whose original is there
  neighbour,  \* the files f for which a file ".f" is there
  tmpdir,     \* the files whose temporary directory is there
  failed,     \* the nodes with success = false: "reader", "worker", "writer"
  writer      \* "running", "end" or "killed", the process by a signal

disk == <<part, cut, packed, target, original, neighbour, tmpdir>>
vars == <<options, input, faults, argi, blk, listed, tasks, work, written, M, dirV, disk,
          failed, writer>>

(* -t, in Mbyte: the largest size of a small file.                          *)
BIGFILE_LOW_THRESHOLD(t) == IF 2 < t THEN 2 ELSE t

(* A file of the command line: its size in Mbyte, whether its name has the  *)
(* suffix .zip, and what is in such a file: one compressed file, or a tar   *)
(* file of size parts.  All of them are given with or without a directory.  *)
Inputs(f) ==
  [size : Sizes[f], content : {"other"}]
    \cup {[size |-> s, content |-> IF s = 1 THEN "small" ELSE "tar"] : s \in Sizes[f] \ {0}}
suffix(a) == a.content # "other"

Options ==
  {o \in [comp : BOOLEAN, REMOVE_ORIGIN : BOOLEAN, here : BOOLEAN,
           threshold : {BIGFILE_LOW_THRESHOLD(t) : t \in 1 .. 3}] :
     /\ ~o.comp => o.threshold = 2
     /\ o.here => o.comp /\ o.REMOVE_ORIGIN}   \* matters nowhere else

Init ==
  /\ options \in Options
  /\ input \in [File -> UNION {Inputs(f) : f \in File}]
  /\ \A f \in File : input[f] \in Inputs(f)
  /\ faults = {}
  /\ argi = 1 /\ blk = 0 /\ listed = <<>>
  /\ tasks = {} /\ work = [w \in Node |-> NoTask] /\ written = {}
  /\ M = [f \in File |-> 0]
  /\ part = [f \in File |-> {}] /\ cut = part /\ packed = part
  /\ dirV = [f \in File |-> 0]
  /\ target = [f \in File |-> "none"]
  /\ original = File /\ neighbour = File /\ tmpdir = {}
  /\ failed = {}
  /\ writer = "running"

(* A call for file f fails: "seen" when the program notes it in success,    *)
(* "unseen" when it takes no notice.                                        *)
Works == UNCHANGED faults
Fails(f, how) ==
  /\ faults' = faults \cup {<<f, how>>}
  /\ Cardinality(faults') <= MaxFaults

-----------------------------------------------------------------------------
(* The reader.                                                              *)
comp == options.comp
Reading == argi <= Files
Argument == input[argi]

(* discardIt: compressed files are not compressed again, others not         *)
(* decompressed; nor are empty files.                                       *)
Discarded(f) == suffix(input[f]) = comp \/ input[f].size = 0

Block(f, i, n, s) == [file |-> f, blockid |-> i, nblocks |-> n, size |-> s]

(* doWorkCompress: a small file is one task, a big one a task per block.    *)
Blocks(f, size, t) ==
  LET fullblocks == size \div t
      partial == size % t
      n == fullblocks + (IF partial > 0 THEN 1 ELSE 0)
  IN  IF size <= t THEN <<Block(f, 1, 1, size)>>
      ELSE [i \in 1 .. n |-> Block(f, i, n, IF i <= fullblocks THEN t ELSE partial)]

(* doWorkDecompress of a tar file: a task per file in it.                   *)
Parts(f, n) == [i \in 1 .. n |-> Block(f, i, n, 1)]

NextArgument ==
  argi' = argi + 1 /\ blk' = 0 /\ listed' = <<>>
SendAll(ts) == listed' = ts /\ UNCHANGED <<argi, blk>>

Skip ==
  /\ Reading /\ listed = <<>> /\ Discarded(argi)
  /\ NextArgument
  /\ UNCHANGED <<options, input, faults, tasks, work, written, M, dirV, disk, failed, writer>>

(* The argument is passed over: stat fails, of which success knows nothing; *)
(* or it cannot be mapped, has no valid header, no temporary directory, or  *)
(* cannot be unpacked.  removeDir goes on to remove that directory with     *)
(* unlink, and so leaves it if there were files in it.                      *)
ReaderFails ==
  /\ Reading /\ listed = <<>> /\ ~Discarded(argi)
  /\ \/ Fails(argi, "unseen") /\ UNCHANGED <<failed, tmpdir>>
     \/ /\ Fails(argi, "seen")
        /\ failed' = failed \cup {"reader"}
        /\ \/ UNCHANGED tmpdir
           \/ Argument.content = "tar" /\ tmpdir' = tmpdir \cup {argi}
  /\ NextArgument
  /\ UNCHANGED <<options, input, tasks, work, written, M, dirV, part, cut, packed, target,
                 original, neighbour, writer>>

(* mapFile, or checkHeader and tar.                                         *)
OpenArgument ==
  /\ Reading /\ listed = <<>> /\ ~Discarded(argi)
  /\ IF comp THEN /\ SendAll(Blocks(argi, Argument.size, options.threshold))
                  /\ UNCHANGED <<packed, tmpdir, dirV>>
     ELSE IF Argument.content = "small"
     THEN SendAll(<<Block(argi, 1, 1, 1)>>) /\ UNCHANGED <<packed, tmpdir, dirV>>
     ELSE /\ SendAll(Parts(argi, Argument.size))
          /\ dirV' = [dirV EXCEPT ![argi] = Argument.size]
          /\ packed' = [packed EXCEPT ![argi] = 1 .. Argument.size]
          /\ tmpdir' = tmpdir \cup {argi}
  /\ UNCHANGED <<options, input, faults, tasks, work, written, M, part, cut, target,
                 original, neighbour, failed, writer>>

(* readdir fails behind the first n entries of the temporary directory: the *)
(* reader sends these, as if they were all.                                 *)
ReaddirFails ==
  /\ Reading /\ listed = <<>> /\ ~Discarded(argi) /\ Argument.content = "tar"
  /\ Fails(argi, "seen")
  /\ failed' = failed \cup {"reader"}
  /\ \E n \in 0 .. Argument.size - 1 :
       /\ IF n = 0 THEN NextArgument ELSE SendAll(Parts(argi, n))
       /\ dirV' = [dirV EXCEPT ![argi] = n]
  /\ packed' = [packed EXCEPT ![argi] = 1 .. Argument.size]
  /\ tmpdir' = tmpdir \cup {argi}
  /\ UNCHANGED <<options, input, tasks, work, written, M, part, cut, target, original,
                 neighbour, writer>>

(* ff_send_out, to a worker that is free.                                   *)
SendBlock ==
  /\ listed # <<>>
  /\ Cardinality(tasks) < Degree
  /\ tasks' = tasks \cup {listed[blk + 1]}
  /\ IF blk + 1 = Len(listed) THEN NextArgument
     ELSE blk' = blk + 1 /\ UNCHANGED <<argi, listed>>
  /\ UNCHANGED <<options, input, faults, work, written, M, dirV, disk, failed, writer>>

Reader == Skip \/ ReaderFails \/ OpenArgument \/ ReaddirFails \/ SendBlock

-----------------------------------------------------------------------------
(* The workers: Worker::svc takes a task and ends with it.                  *)
TakeTask(w) ==
  /\ work[w] = NoTask
  /\ \E t \in tasks : work' = [work EXCEPT ![w] = t] /\ tasks' = tasks \ {t}
  /\ UNCHANGED <<options, input, faults, argi, blk, listed, written, M, dirV, disk, failed,
                 writer>>

oneblockfile(t) == t.nblocks = 1
Idle(w) == work' = [work EXCEPT ![w] = NoTask]

Put(f, result) == target' = [target EXCEPT ![f] = result]
Gets(files, t) == [files EXCEPT ![t.file] = @ \cup {t.blockid}]

Removed(f, ok) == IF ok /\ options.REMOVE_ORIGIN THEN original \ {f} ELSE original

(* compress and writeFile: a small file gets its result, a block a file.    *)
(* That a small file could not be written is not noted.                     *)
Write(t, ok) ==
  IF oneblockfile(t)
  THEN /\ IF ok THEN Works /\ Put(t.file, "ok")
          ELSE Fails(t.file, "unseen") /\ \E r \in {"none", "bad"} : Put(t.file, r)
       /\ original' = Removed(t.file, ok)
       /\ UNCHANGED <<part, cut, written, failed>>
  ELSE /\ IF ok THEN /\ Works /\ part' = Gets(part, t) /\ written' = written \cup {t}
                     /\ UNCHANGED <<cut, failed>>
          ELSE /\ Fails(t.file, "seen") /\ failed' = failed \cup {"worker"}
               /\ cut' \in {cut, Gets(cut, t)} /\ UNCHANGED <<part, written>>
       /\ UNCHANGED <<target, original>>

Compress(w) ==
  /\ comp /\ work[w] # NoTask
  /\ Idle(w)
  /\ \/ \E ok \in BOOLEAN : Write(work[w], ok)
     \/ /\ Fails(work[w].file, "seen")          \* compress() # Z_OK
        /\ failed' = failed \cup {"worker"}
        /\ UNCHANGED <<part, cut, target, original, written>>
  /\ UNCHANGED <<options, input, argi, blk, listed, tasks, M, dirV, packed, neighbour, tmpdir,
                 writer>>

(* decompressFile of a file that is not an archive.  Nobody looks at what   *)
(* the fclose of the output returns: the original goes all the same.        *)
DecompressSmall(t) ==
  /\ \/ /\ Works /\ Put(t.file, "ok")
        /\ original' = Removed(t.file, TRUE) /\ UNCHANGED failed
     \/ /\ Fails(t.file, "unseen") /\ Put(t.file, "bad")
        /\ original' = Removed(t.file, TRUE) /\ UNCHANGED failed
     \/ /\ Fails(t.file, "seen") /\ \E r \in {"none", "bad"} : Put(t.file, r)
        /\ failed' = failed \cup {"worker"} /\ UNCHANGED original
  /\ UNCHANGED <<part, cut, packed, written>>

(* decompressFile of a part, in the temporary directory: it replaces the    *)
(* compressed file, unless the reader found one entry only and the original *)
(* is to stay.  A call that fails behind fopen leaves a truncated output;   *)
(* an fclose or unlink that fails is not seen.  The part goes to the writer *)
(* whether it worked or not.                                                *)
DecompressPart(t) ==
  LET unpacked == IF oneblockfile(t) /\ ~options.REMOVE_ORIGIN THEN packed
                  ELSE [packed EXCEPT ![t.file] = @ \ {t.blockid}]
  IN  /\ \/ /\ Works /\ part' = Gets(part, t) /\ packed' = unpacked
            /\ UNCHANGED <<cut, failed>>
         \/ /\ Fails(t.file, "unseen") /\ UNCHANGED failed
            /\ \/ part' = Gets(part, t) /\ UNCHANGED <<cut, packed>>
               \/ cut' = Gets(cut, t) /\ packed' = unpacked /\ UNCHANGED part
         \/ /\ Fails(t.file, "seen") /\ failed' = failed \cup {"worker"}
            /\ cut' \in {cut, Gets(cut, t)} /\ UNCHANGED <<part, packed>>
      /\ written' = IF oneblockfile(t) THEN written ELSE written \cup {t}
      /\ UNCHANGED <<target, original>>

Decompress(w) ==
  /\ ~comp /\ work[w] # NoTask
  /\ Idle(w)
  /\ IF input[work[w].file].content = "small" THEN DecompressSmall(work[w])
     ELSE DecompressPart(work[w])
  /\ UNCHANGED <<options, input, argi, blk, listed, tasks, M, dirV, neighbour, tmpdir, writer>>

(* decompressFile goes to dcpError before the output has been opened, and   *)
(* there closes pOutfile, which has not got a value yet.                    *)
WorkerKilled(w) ==
  /\ ~comp /\ work[w] # NoTask
  /\ Fails(work[w].file, "seen")
  /\ writer' = "killed"
  /\ UNCHANGED <<options, input, argi, blk, listed, tasks, work, written, M, dirV, disk, failed>>

Worker(w) == TakeTask(w) \/ Compress(w) \/ Decompress(w) \/ WorkerKilled(w)

-----------------------------------------------------------------------------
(* The writer.                                                              *)
Empty(files, f) == [files EXCEPT ![f] = {}]

(* The path -C 1 removes is dirname + filename, and without a directory in  *)
(* the path dirname is ".": the original stays and the file ".f" goes.      *)
RemoveBigOriginal(f) ==
  IF ~options.REMOVE_ORIGIN THEN UNCHANGED <<original, neighbour>>
  ELSE IF options.here THEN neighbour' = neighbour \ {f} /\ UNCHANGED original
  ELSE original' = original \ {f} /\ UNCHANGED neighbour

(* tar --remove-files; one that fails may have written an archive that is   *)
(* not whole, and may have removed parts.                                   *)
Tar(t) ==
  LET f == t.file IN
  /\ UNCHANGED <<packed, tmpdir, writer>>
  /\ \/ /\ Works
        /\ Put(f, IF part[f] = 1 .. t.nblocks THEN "ok" ELSE "bad")
        /\ part' = Empty(part, f) /\ cut' = Empty(cut, f)
        /\ RemoveBigOriginal(f)
        /\ UNCHANGED failed
     \/ /\ Fails(f, "seen")
        /\ failed' = failed \cup {"writer"}
        /\ \E r \in {"none", "bad"} : Put(f, r)
        /\ \E left \in SUBSET part[f] : part' = [part EXCEPT ![f] = left]
        /\ UNCHANGED <<cut, original, neighbour>>

(* The parts 1 .. nblocks are mapped and copied one behind the other.  One  *)
(* that is not there is an error.  A truncated one is copied as it is, but  *)
(* cannot be mapped when it is empty; and when the reader did not find all  *)
(* the entries, those it found need not be the first ones.                  *)
Merged(t, error, result, emptied) ==
  /\ Put(t.file, result)
  /\ original' = Removed(t.file, ~error)
  /\ failed' = IF error THEN failed \cup {"writer"} ELSE failed
  /\ tmpdir' = IF emptied THEN tmpdir \ {t.file} ELSE tmpdir

(* removeDir with a directory that is not empty removes the files in it and *)
(* leaves the directory, see ReaderFails.  fopen's failure ends in          *)
(* fclose(NULL); the failures of fclose, unlink and rmdir are not seen.     *)
Merge(t) ==
  LET f == t.file
      whole == part[f] = 1 .. input[f].size /\ dirV[f] = input[f].size
      result == IF whole THEN "ok" ELSE "bad"
      errors == IF part[f] \cup cut[f] # 1 .. t.nblocks THEN {TRUE}
                ELSE IF whole THEN {FALSE} ELSE BOOLEAN
  IN  /\ \/ /\ Works /\ UNCHANGED writer
            /\ \E error \in errors :
                 Merged(t, error, IF error THEN "bad" ELSE result, ~error /\ packed[f] = {})
         \/ /\ Fails(f, "unseen") /\ UNCHANGED writer
            /\ \E error \in errors, r \in {"bad", result}, emptied \in BOOLEAN :
                 /\ error => r = "bad" /\ ~emptied
                 /\ Merged(t, error, r, emptied /\ packed[f] = {})
         \/ Fails(f, "seen") /\ UNCHANGED writer /\ Merged(t, TRUE, "bad", FALSE)
         \/ Fails(f, "seen") /\ writer' = "killed" /\ UNCHANGED <<target, original, failed, tmpdir>>
      /\ part' = Empty(part, f) /\ cut' = Empty(cut, f) /\ packed' = Empty(packed, f)
      /\ UNCHANGED neighbour

(* Mutant: the result is put together one block too early.                  *)
MutLastBlock(t) == M[t.file] > 0 /\ M[t.file] + 1 >= t.nblocks - 1

LastBlock(t) == M[t.file] > 0 /\ M[t.file] + 1 = t.nblocks

(* Write::svc.                                                              *)
WriterReceives ==
  \E t \in written :
    /\ written' = written \ {t}
    /\ IF LastBlock(t)
       THEN /\ M' = [M EXCEPT ![t.file] = 0]
            /\ IF comp THEN Tar(t) ELSE Merge(t)
       ELSE /\ M' = [M EXCEPT ![t.file] = @ + 1]
            /\ UNCHANGED <<faults, disk, failed, writer>>
    /\ UNCHANGED <<options, input, argi, blk, listed, tasks, work, dirV>>

(* Write::svc_end: the map must be empty.                                   *)
Counted == \A f \in File : M[f] = 0
WriterEnds ==
  /\ writer = "running"
  /\ ~Reading /\ tasks = {} /\ written = {} /\ \A w \in Node : work[w] = NoTask
  /\ writer' = "end"
  /\ failed' = IF Counted THEN failed ELSE failed \cup {"writer"}
  /\ UNCHANGED <<options, input, faults, argi, blk, listed, tasks, work, written, M, dirV, disk>>

Writer == WriterReceives \/ WriterEnds
Over == writer # "running"
Ended == Over /\ UNCHANGED vars

Next ==
  \/ writer = "running" /\ (Reader \/ (\E w \in Node : Worker(w)) \/ Writer)
  \/ Ended

-----------------------------------------------------------------------------
(* main prints "Done." and returns 0.                                       *)
Done == writer = "end" /\ failed = {}

Untroubled(f) == \A how \in {"seen", "unseen"} : <<f, how>> \notin faults
Finished(f) ==
  /\ part[f] = {} /\ cut[f] = {} /\ packed[f] = {} /\ f \notin tmpdir
  /\ Discarded(f) \/ target[f] = "ok"

(* No file suffers from a call that fails for another one: the original of  *)
(* a file that has no failing call of its own goes only for a complete      *)
(* result, and in the end it has that result and nothing is left over.      *)
FaultsAreLocal ==
  \A f \in File : Untroubled(f) =>
    /\ f \notin original => target[f] = "ok"
    /\ writer = "end" => Finished(f)

(* Compressing removes no original without a complete result, whatever      *)
(* fails and in whatever order the blocks come.                             *)
CompressionKeeps == comp => \A f \in File \ original : target[f] = "ok"

(* "Done." is said over complete results, with nothing left over, but for   *)
(* files whose stat, write of a small result, fclose or unlink failed.      *)
DoneMeansComplete ==
  Done => \A f \in File : <<f, "unseen">> \notin faults => Finished(f)

FilesIntact == FaultsAreLocal /\ CompressionKeeps /\ DoneMeansComplete

(* cmdline.hpp:39: "-C compress: 0 preserves, 1 removes the original file". *)
OnlyOriginalsRemoved == neighbour = File

(* utility.hpp:277: "the input compressed file will be removed if           *)
(* successfully uncompressed"; here where the program noticed the failure.  *)
RemovedIfUncompressed ==
  ~comp => \A f \in File \ original : <<f, "seen">> \in faults => target[f] = "ok"
=============================================================================
