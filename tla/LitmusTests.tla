---------------------------- MODULE LitmusTests ----------------------------
(***************************************************************************)
(* The litmus tests of verifying/targets/wmm_litmus as data: the initial   *)
(* values of the atomics, and the body of each method as a sequence of     *)
(* instructions, method A on thread 0, B on thread 1, C on thread 2, as    *)
(* the custom round of each test places them.  Memory location 0 is x and  *)
(* 1 is y.  Registers are the tests' variables, named apart.               *)
(***************************************************************************)
EXTENDS Integers, Sequences, TLC

x == 0
y == 1
(* ---- instructions ----------------------------------------------------- *)

Instruction ==
  [do |-> "set", reg |-> "r1", loc |-> x, order |-> "SeqCst", op |-> "none",
   failure |-> "SeqCst", arg |-> 0, new |-> FALSE, allowed |-> {}, forbidden |-> <<>>, back |-> 0]

set(r, v) == [Instruction EXCEPT !.reg = r, !.arg = v]
load(r, l, o) == [Instruction EXCEPT !.do = "load", !.reg = r, !.loc = l, !.order = o]
store(l, v, o) == [Instruction EXCEPT !.do = "store", !.loc = l, !.arg = v, !.order = o]
\* r receives the value before the operation.
fetch(r, op, l, v, o) ==
  [Instruction EXCEPT !.do = "fetch", !.reg = r, !.op = op, !.loc = l,
                      !.arg = v, !.order = o]
\* The compound assignments and prefix operators: r receives the new value.
assign(r, op, l, v) == [fetch(r, op, l, v, "SeqCst") EXCEPT !.new = TRUE]
\* compare_exchange of r against r + 1; a failure goes back to an instruction.
cas(r, l, success, failure, back) ==
  [Instruction EXCEPT !.do = "cas", !.reg = r, !.loc = l, !.order = success,
                      !.failure = failure, !.back = back]
\* The rest of the method runs only if r = v.
if(r, v) == [Instruction EXCEPT !.do = "if", !.reg = r, !.arg = v]
rassert(r, S) == [Instruction EXCEPT !.do = "rassert", !.reg = r, !.allowed = S]
\* rassert that the registers do not have all of these values together.
forbid(values) == [Instruction EXCEPT !.do = "forbid", !.forbidden = values]

Both(r, v, s, w) == (r :> v) @@ (s :> w)

(* ---- tests that must not fail ----------------------------------------- *)

Exp1 == [mem |-> <<0, 0>>, code |-> <<
  << load("r1", y, "SeqCst"), store(x, 1, "SeqCst"), forbid(Both("r1", 1, "r2", 1)) >>,
  << load("r2", x, "SeqCst"), store(y, 1, "SeqCst"), forbid(Both("r1", 1, "r2", 1)) >> >>]

Exp2 == [mem |-> <<0, 0>>, code |-> <<
  << store(y, 1, "Relaxed"), store(x, 2, "SeqCst") >>,
  << load("r1", x, "SeqCst"), if("r1", 2), load("r2", y, "Relaxed"),
     rassert("r2", {1}) >> >>]

\* Tests 3 to 5 differ in the orders of their stores and loads.
Chain(st, ld) == [mem |-> <<0, 0>>, code |-> <<
  << store(y, 20, st), store(x, 10, st) >>,
  << load("r1", x, ld), if("r1", 10), load("r2", y, ld), rassert("r2", {20}),
     store(y, 10, st) >>,
  << load("r3", y, ld), if("r3", 10), load("r4", x, ld), rassert("r4", {10}) >> >>]

Exp3 == Chain("SeqCst", "SeqCst")
Exp5 == Chain("Release", "Acquire")

Exp7 == [mem |-> <<0>>, code |-> <<
  << load("r1", x, "SeqCst"), cas("r1", x, "SeqCst", "SeqCst", 1), rassert("r1", {0}),
     load("r2", x, "SeqCst"), rassert("r2", {1}) >>,
  << load("r3", x, "SeqCst"), rassert("r3", {0, 1}) >> >>]

Exp8 == [mem |-> <<0>>, code |-> <<
  << load("r1", x, "SeqCst"), cas("r1", x, "SeqCst", "SeqCst", 1), load("r2", x, "SeqCst"),
     rassert("r1", {0, 1}), rassert("r2", {1, 2}) >>,
  << store(x, 1, "SeqCst"), load("r3", x, "SeqCst"), rassert("r3", {1, 2}) >> >>]

Exp10 == [mem |-> <<0, 0>>, code |-> <<
  << store(y, 1, "Relaxed"), fetch("r1", "exchange", x, 1, "SeqCst"),
     rassert("r1", {0}), load("r2", x, "SeqCst"), rassert("r2", {1}) >>,
  << load("r3", x, "SeqCst"), rassert("r3", {0, 1}), if("r3", 1),
     load("r4", y, "Relaxed"), rassert("r4", {1}) >> >>]

Exp12 == [mem |-> <<1, 0>>, code |-> <<
  << store(y, 1, "Relaxed"), fetch("r1", "fetch_sub", x, 2, "Release") >>,
  << load("r3", x, "Acquire"), load("r4", y, "Relaxed"), if("r3", -1),
     rassert("r4", {1}) >> >>]

\* Tests 13 to 15, 19 to 21 and 23: one operation with a known result, then a
\* load of the new value, beside a thread that sees the old or the new value.
OneUpdate(old, update, result, new) == [mem |-> <<old>>, code |-> <<
  << update, rassert("r1", {result}), load("r2", x, "SeqCst"),
     rassert("r2", {new}) >>,
  << load("r3", x, "SeqCst"), rassert("r3", {old, new}) >> >>]

Exp13 == OneUpdate(0, assign("r1", "fetch_add", x, 1), 1, 1)
Exp14 == OneUpdate(1, assign("r1", "fetch_sub", x, 1), 0, 0)
Exp15 == OneUpdate(0, fetch("r1", "fetch_add", x, 1, "SeqCst"), 0, 1)
Exp19 == OneUpdate(6, assign("r1", "fetch_and", x, 3), 2, 2)
Exp20 == OneUpdate(1, assign("r1", "fetch_or", x, 4), 5, 5)
Exp21 == OneUpdate(3, assign("r1", "fetch_xor", x, 1), 2, 2)
Exp23 == OneUpdate(2, fetch("r1", "fetch_sub", x, 1, "SeqCst"), 2, 1)

\* Tests 16, 18 and 25: a released update publishes the relaxed store to y.
Publish(old, op, arg, new) == [mem |-> <<old, 0>>, code |-> <<
  << store(y, 1, "Relaxed"), fetch("r1", op, x, arg, "Release"),
     rassert("r1", {old}), load("r2", x, "Relaxed"), rassert("r2", {new}) >>,
  << load("r3", x, "Acquire"), load("r4", y, "Relaxed"), if("r3", new),
     rassert("r4", {1}) >> >>]

Exp16 == Publish(3, "fetch_and", 1, 1)
Exp18 == Publish(1, "fetch_xor", 2, 3)
Exp25 == Publish(5, "fetch_xor", 3, 6)

(* ---- tests that are expected to fail under weak memory ----------------- *)

Exp4 == Chain("Relaxed", "Relaxed")

Exp6 == [mem |-> <<0, 0>>, code |-> <<
  << store(y, 20, "Relaxed"), store(x, 10, "SeqCst") >>,
  << load("r1", x, "Relaxed"), if("r1", 10), load("r2", y, "SeqCst"),
     rassert("r2", {20}), store(y, 10, "Relaxed") >>,
  << load("r3", y, "Acquire"), if("r3", 10), load("r4", x, "Acquire"),
     rassert("r4", {10}) >> >>]

Exp9 == [mem |-> <<0, 0>>, code |-> <<
  << set("r1", 0), cas("r1", x, "Relaxed", "Relaxed", 1), store(y, 1, "Relaxed") >>,
  << load("r3", y, "Relaxed"), load("r4", x, "Relaxed"),
     forbid(Both("r3", 1, "r4", 0)) >> >>]

\* Tests 11, 22, 24 and 26: a relaxed update of x, then a relaxed flag in y.
Flag(old, op, arg) == [mem |-> <<old, 0>>, code |-> <<
  << fetch("r1", op, x, arg, "Relaxed"), store(y, 1, "Relaxed") >>,
  << load("r3", y, "Relaxed"), load("r4", x, "Relaxed"),
     forbid(Both("r3", 1, "r4", old)) >> >>]

Exp11 == Flag(0, "fetch_add", 1)
Exp22 == Flag(3, "fetch_and", 1)
Exp24 == Flag(1, "fetch_or", 4)
Exp26 == Flag(3, "fetch_xor", 1)

Exp17 == [mem |-> <<0, 0>>, code |-> <<
  << store(y, 1, "Relaxed"), fetch("r1", "fetch_or", x, 1, "Relaxed") >>,
  << load("r3", x, "Relaxed"), load("r4", y, "Relaxed"),
     forbid(Both("r3", 1, "r4", 0)) >> >>]

MustHold ==
  {Exp1, Exp2, Exp3, Exp5, Exp7, Exp8, Exp10, Exp12, Exp13, Exp14, Exp15, Exp16,
   Exp18, Exp19, Exp20, Exp21, Exp23, Exp25}
MayFail == {Exp4, Exp6, Exp9, Exp11, Exp17, Exp22, Exp24, Exp26}
============================================================================
