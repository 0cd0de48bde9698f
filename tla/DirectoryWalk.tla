----------------------------- MODULE DirectoryWalk -----------------------------
(***************************************************************************)
(* compdecomp, the sequential compressor of example7: it compresses (or    *)
(* decompresses) the files of its command line and walks through the       *)
(* directories, changing its own working directory as it goes.  Entries    *)
(* are numbers, a directory's number is a key of Tree; any system call may *)
(* fail.                                                                   *)
(***************************************************************************)
EXTENDS Integers, SequencesExt

CONSTANTS
  Tree,        \* Tree[d]: the entries of directory d, in readdir's order
  Arguments,   \* the command lines, sequences of entries of Home
  Home,        \* the directory the program is started in
  MaxFaults    \* failing calls of a run

Directory == DOMAIN Tree
Entry == UNION {ToSet(Tree[d]) : d \in Directory}
Plain == Entry \ Directory
Parent(d) == CHOOSE e \in Directory : d \in ToSet(Tree[e])

VARIABLES
  arg,       \* arguments left; they are done from the last to the first
  cwd,       \* working directory
  calls,     \* the calls of walkDir: dir, next entry and error of each
  success,   \* of main
  output,    \* output[f]: "none", "ok", "bad", or "cut" where fclose failed
             \* and nobody looked
  original,  \* the files that are there
  faults,
  options    \* compress and REMOVE_ORIGIN

vars == <<arg, cwd, calls, success, output, original, faults, options>>

Init ==
  /\ arg \in Arguments
  /\ cwd = Home /\ calls = <<>> /\ success = TRUE
  /\ output = [f \in Plain |-> "none"]
  /\ original = Plain
  /\ faults = 0
  /\ options \in [compress : BOOLEAN, REMOVE_ORIGIN : BOOLEAN]

Works == UNCHANGED faults
Fails == faults < MaxFaults /\ faults' = faults + 1

(* How compressFile and decompressFile end: the file written, what they     *)
(* return, and whether a call failed.  compressFile returns 0 although its  *)
(* file could not be written; decompressFile looks at no fclose.            *)
Outcome(o, v, f) == [output |-> o, ok |-> v, fails |-> f]
compressFile ==
  {Outcome("ok", TRUE, FALSE), Outcome("none", FALSE, TRUE)}
    \cup {Outcome(o, TRUE, TRUE) : o \in {"none", "bad"}}
decompressFile ==
  {Outcome("ok", TRUE, FALSE), Outcome("cut", TRUE, TRUE)}
    \cup {Outcome(o, FALSE, TRUE) : o \in {"none", "bad"}}

MayRemove(o) == o.output \in {"ok", "cut"}

(* doWork on file f; return is what becomes of the result.                  *)
doWork(f, return(_)) ==
  \E o \in IF options.compress THEN compressFile ELSE decompressFile :
    /\ IF o.fails THEN Fails ELSE Works
    /\ output' = [output EXCEPT ![f] = o.output]
    /\ original' = IF options.REMOVE_ORIGIN /\ MayRemove(o) THEN original \ {f} ELSE original
    /\ return(o.ok)

InMain == calls = <<>>
top == Last(calls)
SetTop(c, r) == Append(Front(c), r)

(* The call of walkDir returns false, or true: to main, or to the call      *)
(* before it, which then goes back with chdir("..") and takes its 0 for the *)
(* failure.                                                                 *)
Noted(c) == SetTop(c, [Last(c) EXCEPT !.error = TRUE])

ReturnFalse ==
  LET rest == Front(calls) IN
  /\ IF rest = <<>> THEN calls' = rest /\ success' = FALSE
     ELSE calls' = Noted(rest) /\ UNCHANGED success
  /\ UNCHANGED cwd

ReturnTrue ==
  LET rest == Front(calls) IN
  /\ UNCHANGED success
  /\ IF rest = <<>> THEN calls' = rest /\ UNCHANGED <<cwd, faults>>
     ELSE \/ Works /\ cwd' = Parent(cwd) /\ calls' = Noted(rest)
          \/ Fails /\ calls' = rest /\ UNCHANGED cwd

(* chdir and opendir at the beginning of walkDir; when opendir fails the     *)
(* working directory has changed already.                                   *)
EnterDirectory(d, c) ==
  /\ Works
  /\ cwd' = d
  /\ calls' = Append(c, [dir |-> d, next |-> 1, error |-> FALSE])

(* main: an argument that stat does not find, as always from another        *)
(* working directory, is reported and skipped.                              *)
NotFound ==
  /\ InMain /\ arg # <<>>
  /\ \/ Works /\ cwd # Home
     \/ Fails
  /\ arg' = Front(arg)
  /\ UNCHANGED <<cwd, calls, success, output, original, options>>

FileArgument ==
  /\ InMain /\ arg # <<>> /\ cwd = Home /\ Last(arg) \in Plain
  /\ doWork(Last(arg), LAMBDA v : success' = (success /\ v))
  /\ arg' = Front(arg)
  /\ UNCHANGED <<cwd, calls, options>>

DirectoryArgument ==
  /\ InMain /\ arg # <<>> /\ cwd = Home /\ Last(arg) \in Directory
  /\ arg' = Front(arg)
  /\ \/ EnterDirectory(Last(arg), calls) /\ UNCHANGED success
     \/ Fails /\ success' = FALSE /\ cwd' \in {cwd, Last(arg)} /\ UNCHANGED calls
  /\ UNCHANGED <<output, original, options>>

(* walkDir: one entry.                                                      *)
Walking == ~InMain /\ top.next <= Len(Tree[top.dir])
entry == Tree[top.dir][top.next]
Advanced(v) == SetTop(calls, [top EXCEPT !.next = @ + 1, !.error = @ \/ ~v])

(* stat fails, always when the working directory is another one, or readdir *)
(* does, also behind the last entry.                                        *)
EntryFails ==
  /\ ~InMain
  /\ \/ Works /\ Walking /\ cwd # top.dir
     \/ Fails
  /\ ReturnFalse
  /\ UNCHANGED <<arg, output, original, options>>

WalkFile ==
  /\ Walking /\ cwd = top.dir /\ entry \in Plain
  /\ doWork(entry, LAMBDA v : calls' = Advanced(v))
  /\ UNCHANGED <<arg, cwd, success, options>>

WalkDirectory ==
  /\ Walking /\ cwd = top.dir /\ entry \in Directory
  /\ \/ EnterDirectory(entry, Advanced(TRUE))
     \/ Fails /\ calls' = Advanced(FALSE) /\ cwd' \in {cwd, entry}
  /\ UNCHANGED <<arg, success, output, original, options>>

(* readdir has no more entries.                                             *)
WalkEnds ==
  /\ ~InMain /\ top.next > Len(Tree[top.dir])
  /\ IF top.error THEN Works /\ ReturnFalse ELSE ReturnTrue
  /\ UNCHANGED <<arg, output, original, options>>

(* decompressFile closes pOutfile before it has got a value: the program    *)
(* may go on, see decompressFile, or a signal ends it.                      *)
Killed ==
  /\ ~options.compress
  /\ \/ InMain /\ arg # <<>> /\ cwd = Home /\ Last(arg) \in Plain
     \/ Walking /\ cwd = top.dir /\ entry \in Plain
  /\ Fails
  /\ arg' = <<>> /\ calls' = <<>> /\ success' = FALSE
  /\ UNCHANGED <<cwd, output, original, options>>

Walk == EntryFails \/ WalkFile \/ WalkDirectory \/ WalkEnds
Main == NotFound \/ FileArgument \/ DirectoryArgument
AtEnd == InMain /\ arg = <<>>
Ended == AtEnd /\ UNCHANGED vars

Next == Main \/ Walk \/ Killed \/ Ended

-----------------------------------------------------------------------------
(* No original is lost: what is removed has a complete output, or, in       *)
(* decompression, one whose fclose failed.                                  *)
NothingLost ==
  \A f \in Plain \ original : output[f] = "ok" \/ (~options.compress /\ output[f] = "cut")
=============================================================================
