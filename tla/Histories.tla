------------------------------ MODULE Histories ------------------------------
(***************************************************************************)
(* Histories of Invoke and Response events, the sequential specification   *)
(* they are judged by, and what it means for a history to be linearizable. *)
(*                                                                         *)
(* A task stands for one call of a method under test: `id' is the identity *)
(* of the Task object (the checkers compare tasks by address), `op' its    *)
(* method name with its arguments and `ret' the value it returns.  Method  *)
(* is the map specification_methods: it runs one method on a copy of the   *)
(* sequential object and yields the new object and the returned value.     *)
(* Compare is operator== of the ValueWrapper that the sequential object    *)
(* returned; it need not be equality.                                      *)
(***************************************************************************)
EXTENDS Naturals, Sequences, FiniteSets

CONSTANTS
  TaskId,        \* identities of tasks
  Op,            \* method names with their arguments
  Value,         \* values a method can return (ValueWrapper)
  State,         \* values of the LinearSpecificationObject
  first_state,   \* the initial LinearSpecificationObject
  Method(_, _),  \* Method(op, state) = [state |-> ..., value |-> ...]
  Compare(_, _)  \* Compare(expected, returned)

ASSUME FirstStateAssumption == first_state \in State

ASSUME MethodAssumption ==
  \A op \in Op, s \in State : Method(op, s) \in [state : State, value : Value]

Task == [id : TaskId, op : Op, ret : Value]

HistoryEvent == [type : {"invoke", "response"}, task : Task]

Invokes(h) == {i \in DOMAIN h : h[i].type = "invoke"}

Responses(h) == {i \in DOMAIN h : h[i].type = "response"}

\* A task is invoked at most once, and returns at most once, after its invoke.
\* This is how RunRound records a round.
WellFormed(h) ==
  /\ h \in Seq(HistoryEvent)
  /\ \A i, j \in DOMAIN h :
        h[i].type = h[j].type /\ h[i].task.id = h[j].task.id => i = j
  /\ \A j \in Responses(h) : \E i \in Invokes(h) : i < j /\ h[i].task = h[j].task

\* The invokes whose task returned within the history.
Completed(h) ==
  {i \in Invokes(h) : \E j \in Responses(h) : h[j].task.id = h[i].task.id}

\* get_inv_res_mapping: the index of the response that belongs to an invoke.
inv_res(h) ==
  [i \in Completed(h) |->
     CHOOSE j \in Responses(h) : h[j].task.id = h[i].task.id]

\* The entries that leave the history together with the invoke i.
Entries(h, i) == {i} \cup {inv_res(h)[k] : k \in Completed(h) \cap {i}}

\* A pending invoke accepts any value; a completed one what its task returned.
Matches(h, i, value) == i \in Completed(h) => Compare(value, h[i].task.ret)

-----------------------------------------------------------------------------
(***************************************************************************)
(* Linearizability, independently of any checker: an order q of all        *)
(* invokes that keeps every pair "a returned before b was invoked" in      *)
(* order, and along which the sequential object returns what the tasks     *)
(* returned.  after[k] is the object after the k-th operation of q.        *)
(***************************************************************************)
IsOrder(h, q) ==
  /\ {q[k] : k \in DOMAIN q} = Invokes(h)
  /\ \A a, b \in DOMAIN q : q[a] = q[b] => a = b
  /\ \A a, b \in DOMAIN q :
        a < b /\ q[b] \in Completed(h) => ~(inv_res(h)[q[b]] < q[a])

IsRun(h, q, after) ==
  \A k \in DOMAIN q :
     LET before == IF k = 1 THEN first_state ELSE after[k - 1]
     IN  /\ after[k] = Method(h[q[k]].task.op, before).state
         /\ Matches(h, q[k], Method(h[q[k]].task.op, before).value)

Linearizable(h) ==
  LET n == Cardinality(Invokes(h))
  IN  \E q \in [1..n -> Invokes(h)] :
         IsOrder(h, q) /\ \E after \in [1..n -> State] : IsRun(h, q, after)
=============================================================================
