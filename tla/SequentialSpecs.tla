--------------------------- MODULE SequentialSpecs ---------------------------
(***************************************************************************)
(* The sequential objects of verifying/specs that the checkers run: one    *)
(* operator per GetMethods() map.  An operation is a record of a method    *)
(* name and its argument; a ValueWrapper is <<>> for void_v and <<v>> for  *)
(* a value v.                                                              *)
(***************************************************************************)
EXTENDS Integers, Sequences

void_v == <<>>

\* The comparator travels with the value: that of void_v accepts anything,
\* that of any other value compares the values.
CompareValues(a, b) == a = void_v \/ a = b

Outcome(state, value) == [state |-> state, value |-> value]

\* Queue: Pop of an empty queue returns 0.  capacity bounds the model: a
\* Push beyond it is lost, so callers stay below it.
QueueMethod(op, deq, capacity) ==
  CASE op.name = "Push" ->
         Outcome(IF Len(deq) < capacity THEN Append(deq, op.arg) ELSE deq, void_v)
    [] op.name = "Pop" /\ deq = <<>> -> Outcome(deq, <<0>>)
    [] op.name = "Pop" /\ deq # <<>> -> Outcome(Tail(deq), <<Head(deq)>>)

\* LinearMutex: Lock of a locked mutex returns 1.
MutexMethod(op, isLocked) ==
  CASE op.name = "Lock" -> Outcome(TRUE, <<IF isLocked THEN 1 ELSE 0>>)
    [] op.name = "Unlock" -> Outcome(FALSE, <<0>>)

\* LinearRegister
RegisterMethod(op, x) ==
  CASE op.name = "add" -> Outcome(x + 1, void_v)
    [] op.name = "get" -> Outcome(x, <<x>>)

\* LinearBank
BankMethod(op, cells) ==
  CASE op.name = "Add" -> Outcome([cells EXCEPT ![op.i] = @ + op.count], void_v)
    [] op.name = "Read" -> Outcome(cells, <<cells[op.i]>>)
    [] op.name = "Transfer" /\ cells[op.i] < op.count -> Outcome(cells, <<0>>)
    [] op.name = "Transfer" /\ cells[op.i] >= op.count ->
         Outcome([[cells EXCEPT ![op.i] = @ - op.count] EXCEPT ![op.j] = @ + op.count], <<1>>)
    [] op.name = "ReadBoth" -> Outcome(cells, <<cells[op.i] + cells[op.j]>>)
=============================================================================
