------------------------------- MODULE MemoryOrder ------------------------------
(***************************************************************************)
(* The programs of example4 about the memory orders of C++ atomics.  Of    *)
(* the memory model as much as they use is here: the stores to a variable  *)
(* have an order, a thread's view says which of them it can no longer      *)
(* overlook, and a store may hand its thread's view on to who reads it.    *)
(***************************************************************************)
EXTENDS Naturals, Sequences

Loc == {"x", "y"}
View == [Loc -> Nat]
NoView == [l \in Loc |-> 1]

Store(l, order) == [op |-> "store", loc |-> l, order |-> order]
Await(l, order) == [op |-> "await", loc |-> l, order |-> order]
Count(l, order) == [op |-> "count", loc |-> l, order |-> order]
Fence(order) == [op |-> "fence", loc |-> "x", order |-> order]

(* Two writers and two readers, which read x and y in opposite orders.      *)
TwoWriters(st, ld) ==
  << <<Store("x", st)>>, <<Store("y", st)>>,
     <<Await("x", ld), Count("y", ld)>>, <<Await("y", ld), Count("x", ld)>> >>

sequential_ordering == TwoWriters("seq_cst", "seq_cst")
acq_rel_ordering == TwoWriters("release", "acquire")

(* write_x_then_y and read_y_then_x.                                        *)
relaxed_ordering ==
  << <<Store("x", "relaxed"), Store("y", "relaxed")>>,
     <<Await("y", "relaxed"), Count("x", "relaxed")>> >>

(* Mutant: the store to y is relaxed.                                       *)
mut_acq_rel_ordering2 ==
  << <<Store("x", "relaxed"), Store("y", "relaxed")>>,
     <<Await("y", "acquire"), Count("x", "relaxed")>> >>

acq_rel_ordering2 ==
  << <<Store("x", "relaxed"), Store("y", "release")>>,
     <<Await("y", "acquire"), Count("x", "relaxed")>> >>

Fenced(order) ==
  << <<Store("x", order), Fence("release"), Store("y", "relaxed")>>,
     <<Await("y", "relaxed"), Fence("acquire"), Count("x", order)>> >>

fence_ordering == Fenced("relaxed")
fence_ordering2 == Fenced("plain")

Litmus == {sequential_ordering, acq_rel_ordering, relaxed_ordering,
           acq_rel_ordering2, fence_ordering, fence_ordering2}

VARIABLES
  text,       \* the program that runs: the code of each thread
  stores,     \* stores[l]: the stores to l, each the value and view it hands on
  view,       \* view[t][l]: the last store to l that t has to see
  released,   \* released[t]: t's view at its last release fence
  acquired,   \* acquired[t]: the views t will see after an acquire fence
  sc,         \* sc[l]: the last seq_cst store to l
  at,         \* at[t]: the operation t is at
  z

vars == <<text, stores, view, released, acquired, sc, at, z>>

Thread == DOMAIN text

InitWith(program) ==
  /\ text = program
  /\ stores = [l \in Loc |-> << [value |-> FALSE, view |-> NoView] >>]
  /\ view = [t \in Thread |-> NoView]
  /\ released = [t \in Thread |-> NoView]
  /\ acquired = [t \in Thread |-> NoView]
  /\ sc = NoView
  /\ at = [t \in Thread |-> 1]
  /\ z = 0

Init == \E program \in Litmus : InitWith(program)

Later(v, w) == [l \in Loc |-> IF v[l] > w[l] THEN v[l] ELSE w[l]]

At(t, op) == at[t] \in DOMAIN text[t] /\ text[t][at[t]].op = op
Instr(t) == text[t][at[t]]
Step(t) == at' = [at EXCEPT ![t] = @ + 1]

DoStore(t) ==
  /\ At(t, "store")
  /\ LET l == Instr(t).loc
         order == Instr(t).order
         mine == [view[t] EXCEPT ![l] = Len(stores[l]) + 1]
         handed == CASE order \in {"release", "seq_cst"} -> mine
                     [] order = "relaxed" -> [released[t] EXCEPT ![l] = mine[l]]
                     [] order = "plain" -> NoView
     IN /\ stores' = [stores EXCEPT ![l] = Append(@, [value |-> TRUE, view |-> handed])]
        /\ view' = [view EXCEPT ![t] = mine]
        /\ sc' = IF order = "seq_cst" THEN [sc EXCEPT ![l] = mine[l]] ELSE sc
  /\ Step(t)
  /\ UNCHANGED <<text, released, acquired, z>>

(* The stores t's load may read, by their places.                           *)
Readable(t) ==
  LET l == Instr(t).loc IN
  {k \in 1 .. Len(stores[l]) :
     k >= view[t][l] /\ (Instr(t).order = "seq_cst" => k >= sc[l])}

(* t reads the k-th store.                                                  *)
Read(t, k) ==
  LET l == Instr(t).loc
      seen == [view[t] EXCEPT ![l] = k]
      handed == stores[l][k].view
  IN /\ view' = [view EXCEPT ![t] = IF Instr(t).order \in {"acquire", "seq_cst"}
                                    THEN Later(seen, handed) ELSE seen]
     /\ acquired' = [acquired EXCEPT ![t] = Later(@, handed)]

(* while(!l.load(order));                                                   *)
DoAwait(t) ==
  /\ At(t, "await")
  /\ \E k \in Readable(t) :
       /\ Read(t, k)
       /\ IF stores[Instr(t).loc][k].value THEN Step(t) ELSE UNCHANGED at
  /\ UNCHANGED <<text, stores, released, sc, z>>

(* if(l.load(order)) ++z;                                                   *)
DoCount(t) ==
  /\ At(t, "count")
  /\ \E k \in Readable(t) :
       /\ Read(t, k)
       /\ z' = IF stores[Instr(t).loc][k].value THEN z + 1 ELSE z
  /\ Step(t)
  /\ UNCHANGED <<text, stores, released, sc>>

DoFence(t) ==
  /\ At(t, "fence")
  /\ IF Instr(t).order = "release"
     THEN released' = [released EXCEPT ![t] = view[t]] /\ UNCHANGED view
     ELSE view' = [view EXCEPT ![t] = Later(@, acquired[t])] /\ UNCHANGED released
  /\ Step(t)
  /\ UNCHANGED <<text, stores, acquired, sc, z>>

Run(t) == DoStore(t) \/ DoAwait(t) \/ DoCount(t) \/ DoFence(t)

Done == \A t \in Thread : at[t] > Len(text[t])

Next == (\E t \in Thread : Run(t)) \/ (Done /\ UNCHANGED vars)

-----------------------------------------------------------------------------
(* assert(z.load()!=0), in the four programs whose comment says that it can *)
(* never fire; and the variable that is not atomic is read by a thread that *)
(* cannot overlook the store to it: there is no data race.                  *)
NeverFires ==
  /\ Done /\ text \in {sequential_ordering, acq_rel_ordering2, fence_ordering, fence_ordering2}
       => z # 0
  /\ \A t \in Thread : At(t, "count") /\ Instr(t).order = "plain"
       => view[t][Instr(t).loc] = Len(stores[Instr(t).loc])
=============================================================================
