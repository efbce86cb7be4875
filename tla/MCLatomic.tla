----------------------------- MODULE MCLatomic -----------------------------
(***************************************************************************)
(* Programs for Latomic: the litmus tests of the repository, every program *)
(* of two threads with two accesses each to one atomic, and increments.    *)
(***************************************************************************)
EXTENDS Latomic, LitmusTests

NoProgram == [mem |-> <<>>, code |-> <<>>]

Accesses(r) ==
  {load(r, x, "Relaxed"), load(r, x, "SeqCst"),
   store(x, 1, "Relaxed"), store(x, 1, "Release"),
   fetch(r, "fetch_add", x, 1, "AcqRel"), fetch(r, "fetch_max", x, 1, "SeqCst")}

ShortPrograms ==
  {[mem |-> <<0>>, code |-> << <<a, b>>, <<c, d>> >>] :
     a \in Accesses("r1"), b \in Accesses("r2"),
     c \in Accesses("r3"), d \in Accesses("r4")}

AllPrograms == MustHold \cup MayFail \cup ShortPrograms

\* Two relaxed increments beside a relaxed store.
Increments ==
  {[mem |-> <<0>>,
    code |-> << <<fetch("r1", "fetch_add", x, 1, "Relaxed")>>,
                <<store(x, 5, "Relaxed"), fetch("r2", "fetch_add", x, 1, "Relaxed")>> >>]}
============================================================================
