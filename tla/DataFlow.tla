-------------------------------- MODULE DataFlow -------------------------------
(***************************************************************************)
(* The macro data flow programs of example8 (mdf_example, ff_chol_mdf and  *)
(* strassen_mdf): taskGen adds tasks with the addresses they read and      *)
(* write, the workers execute them in any order that these addresses       *)
(* allow, and the results are to be those of the same calls one after the  *)
(* other.  A number is kept by how it was computed.                        *)
(***************************************************************************)
EXTENDS StrassenAlgebra, FiniteSets, SequencesExt

CONSTANTS
  threads,     \* threads of the ff_mdf
  nb           \* ff_chol_mdf: blocks in a row of the matrix

VARIABLES
  dag,         \* the program that runs
  added,       \* tasks 1 .. added have been given to the ff_mdf
  doing,       \* doing[t]: what the running task t has read
  done,        \* the tasks that have ended
  memory       \* memory[a]: the value at address a

vars == <<dag, added, doing, done, memory>>

(* AddTask: the function, and the addresses that are INPUT and OUTPUT.      *)
AddTask(f, in, out) == [f |-> f, in |-> in, out |-> out]

-----------------------------------------------------------------------------
(* mdf_example: D = D + A, A = A + B, B = B + C, D = D + A + B.  Nobody      *)
(* waits for a reader of an address that no task has written, so the first  *)
(* two tasks read copies.                                                   *)

(* Mutant: they read A and B.                                               *)
MutTmp(X) == X

Tmp(X) == X \o "tmp"

mdf_example ==
  <<AddTask("sum2", <<"D", Tmp("A")>>, <<"D">>),
    AddTask("sum2", <<"A", Tmp("B")>>, <<"A">>),
    AddTask("sum2", <<"B", "C">>, <<"B">>),
    AddTask("sum3", <<"D", "A", "B">>, <<"D">>)>>

(* ff_chol_mdf: the addresses are the blocks <<row, column>>.               *)
Cherk(k, i) == AddTask("CHERK", <<<<k, k>>, <<k, i>>>>, <<<<k, k>>>>)
Cpotf2(k) == AddTask("CPOTF2", <<<<k, k>>>>, <<<<k, k>>>>)
Cgemm(k, j, i) == AddTask("CGEMM", <<<<k, i>>, <<j, i>>, <<j, k>>>>, <<<<j, k>>>>)
Ctrsm(k, j) == AddTask("CTRSM", <<<<k, k>>, <<j, k>>>>, <<<<j, k>>>>)

Column(k) ==
  [i \in 1 .. k |-> Cherk(k, i - 1)] \o <<Cpotf2(k)>>
    \o FlattenSeq([l \in 1 .. nb - 1 - k |->
                     [i \in 1 .. k |-> Cgemm(k, k + l, i - 1)] \o <<Ctrsm(k, k + l)>>])
ff_chol_mdf == FlattenSeq([k \in 1 .. nb |-> Column(k - 1)])

(* strassen_mdf: P2, P3, P6 and P7 are computed in the quadrants of C.      *)
strassen_mdf ==
  <<AddTask("P1", <<"A11", "A22", "B11", "B22">>, <<"P1">>),
    AddTask("P2", <<"A21", "A22", "B11">>, <<"C21">>),
    AddTask("P3", <<"B12", "B22", "A11">>, <<"C12">>),
    AddTask("P4", <<"B21", "B11", "A22">>, <<"P4">>),
    AddTask("P5", <<"A11", "A12", "B22">>, <<"P5">>),
    AddTask("P6", <<"A21", "A11", "B11", "B12">>, <<"C22">>),
    AddTask("P7", <<"A12", "A22", "B21", "B22">>, <<"C11">>),
    AddTask("C11_C22", <<"P1", "C21", "C12", "P4", "P5">>, <<"C11", "C22">>),
    AddTask("C12_C21", <<"P5", "P4">>, <<"C12", "C21">>)>>

Dags == {"mdf_example", "ff_chol_mdf", "strassen_mdf"}
tasks == CASE dag = "mdf_example" -> mdf_example
           [] dag = "ff_chol_mdf" -> ff_chol_mdf
           [] dag = "strassen_mdf" -> strassen_mdf
Task == 1 .. Len(tasks)
Reads(t) == ToSet(tasks[t].in)
Writes(t) == ToSet(tasks[t].out)
Address == UNION {Reads(t) \cup Writes(t) : t \in Task}

-----------------------------------------------------------------------------
(* What a task computes from r, the values it has read; C11 to C22 are      *)
(* added to.                                                                *)
computeP(f, r) ==
  CASE f = "P1" -> seqMatMult(mmsum(r[1], r[2]), mmsum(r[3], r[4]))
    [] f = "P2" -> seqMatMult(mmsum(r[1], r[2]), r[3])
    [] f = "P3" -> seqMatMult(r[3], mmsub(r[1], r[2]))
    [] f = "P4" -> seqMatMult(r[3], mmsub(r[1], r[2]))
    [] f = "P5" -> seqMatMult(mmsum(r[1], r[2]), r[3])
    [] f = "P6" -> seqMatMult(mmsub(r[1], r[2]), mmsum(r[3], r[4]))
    [] f = "P7" -> seqMatMult(mmsub(r[1], r[2]), mmsum(r[3], r[4]))

computeC11(old, P) == mmsub(mmsum(mmsum(old, P[1]), P[4]), P[5])
computeC22(old, P) == mmsum(mmsub(mmsum(old, P[1]), P[2]), P[3])

sum2(X, Y) == mmsum(X, Y)
sum3(X, Y, Z) == mmsum(X, mmsum(Y, Z))

(* r holds what is at the inputs, and old(a) what is at the output a.       *)
ValueAt(t, a, r, old) ==
  LET f == tasks[t].f IN
  CASE f = "sum2" -> sum2(r[1], r[2])
    [] f = "sum3" -> sum3(r[1], r[2], r[3])
    [] f \in {"CHERK", "CPOTF2", "CGEMM", "CTRSM"} -> <<f, r>>
    [] f \in {"P1", "P2", "P3", "P4", "P5", "P6", "P7"} -> computeP(f, r)
    [] f = "C11_C22" -> IF a = "C11" THEN computeC11(old[a], r) ELSE computeC22(old[a], r)
    [] f = "C12_C21" -> mmsum(old[a], IF a = "C12" THEN r[1] ELSE r[2])

Inputs(t, m) == [k \in DOMAIN tasks[t].in |-> m[tasks[t].in[k]]]
Outputs(t, m) == [a \in Writes(t) |-> m[a]]
Execute(t, m, r) == [a \in Address |-> IF a \in Writes(t) THEN ValueAt(t, a, r, m) ELSE m[a]]

(* The numbers of main, and what taskGen copies before it adds tasks.       *)
Letters == [A |-> <<1, 1>>, B |-> <<1, 2>>, C |-> <<2, 1>>, D |-> <<2, 2>>,
            Atmp |-> <<1, 1>>, Btmp |-> <<1, 2>>]
Quadrants == [A11 |-> <<1, 1>>, A12 |-> <<1, 2>>, A21 |-> <<2, 1>>, A22 |-> <<2, 2>>,
              B11 |-> <<1, 1>>, B12 |-> <<1, 2>>, B21 |-> <<2, 1>>, B22 |-> <<2, 2>>]
InitialValue(a) ==
  CASE dag = "mdf_example" -> Quad(Letters[a])
    [] dag = "ff_chol_mdf" -> <<"A", a>>
    [] dag = "strassen_mdf" -> IF a \in DOMAIN Quadrants THEN Quad(Quadrants[a]) ELSE Torn

Init ==
  /\ dag \in Dags
  /\ added = 0 /\ doing = [t \in {} |-> <<>>] /\ done = {}
  /\ memory = [a \in Address |-> InitialValue(a)]

-----------------------------------------------------------------------------
(* ff_mdf: a task waits for the task that last wrote one of its addresses,  *)
(* and before it writes one for those that have read it since.              *)
LastWriter(t, a) ==
  LET W == {s \in 1 .. t - 1 : a \in Writes(s)}
  IN  IF W = {} THEN 0 ELSE CHOOSE s \in W : \A v \in W : v <= s
WaitsFor(t) ==
  ({LastWriter(t, a) : a \in Reads(t) \cup Writes(t)} \ {0})
    \cup UNION {{s \in LastWriter(t, a) + 1 .. t - 1 : a \in Reads(s)} :
                  a \in {b \in Writes(t) : LastWriter(t, b) # 0}}

(* taskGen adds the next task.                                              *)
Generate ==
  /\ added < Len(tasks)
  /\ added' = added + 1
  /\ UNCHANGED <<dag, doing, done, memory>>

Begin(t) ==
  /\ t \notin done \cup DOMAIN doing /\ t <= added
  /\ WaitsFor(t) \subseteq done
  /\ Cardinality(DOMAIN doing) < threads
  /\ doing' = [s \in DOMAIN doing \cup {t} |->
                 IF s = t THEN [in |-> Inputs(t, memory), out |-> Outputs(t, memory)]
                 ELSE doing[s]]
  /\ UNCHANGED <<dag, added, done, memory>>

(* The outputs are torn if somebody else wrote what the task works on.      *)
End(t) ==
  /\ t \in DOMAIN doing
  /\ LET now == [in |-> Inputs(t, memory), out |-> Outputs(t, memory)]
     IN  memory' = IF now = doing[t] THEN Execute(t, memory, doing[t].in)
                   ELSE [a \in Address |-> IF a \in Writes(t) THEN Torn ELSE memory[a]]
  /\ doing' = [s \in DOMAIN doing \ {t} |-> doing[s]]
  /\ done' = done \cup {t}
  /\ UNCHANGED <<dag, added>>

Over == done = Task
Ended == Over /\ UNCHANGED vars

Next == Generate \/ (\E t \in Task : Begin(t) \/ End(t)) \/ Ended

-----------------------------------------------------------------------------
(* The same calls one after the other: cholSeq, and main's check.           *)
Sequential ==
  FoldLeft(LAMBDA m, t : Execute(t, m, Inputs(t, m)),
           [a \in Address |-> InitialValue(a)], [t \in Task |-> t])

(* After the last task the memory is that of the sequential program, and    *)
(* with Strassen's tasks C is A * B.                                        *)
SequentialResult ==
  Over => /\ memory = Sequential
          /\ dag = "strassen_mdf" =>
               /\ memory["C11"] = ProductAt(<<1, 1>>) /\ memory["C12"] = ProductAt(<<1, 2>>)
               /\ memory["C21"] = ProductAt(<<2, 1>>) /\ memory["C22"] = ProductAt(<<2, 2>>)
=============================================================================
