-------------------------- MODULE RecursiveChecker --------------------------
(***************************************************************************)
(* LinearizabilityCheckerRecursive::Check of lincheck_recursive.h: the     *)
(* adapter of ordinary histories for the shared search.                    *)
(***************************************************************************)
EXTENDS Histories

CONSTANT HistorySet   \* the histories Check may be called with, well-formed

VARIABLES history, frames, linearized, failed_cache, pc

IsInvoke(h, i) == h[i].type = "invoke"

IsResponse(h, i) == h[i].type = "response"

\* response_index, filled in by BuildRecursiveHistoryEventInfo
ResponseIndex(h, i) == IF i \in Completed(h) THEN inv_res(h)[i] ELSE 0

\* mutant of TryApply: the result is not compared
TryApplyUncompared(h, i, s) == [ok |-> TRUE, state |-> Method(h[i].task.op, s).state]

\* The method is run on the state; the result counts if there is a response.
TryApply(h, i, s) ==
  LET m == Method(h[i].task.op, s)
  IN  [ok |-> Matches(h, i, m.value), state |-> m.state]

\* The adapter has no CanDropPendingInvoke.
CanDropPendingInvoke(h, i) == FALSE

\* AcceptAnyCompletedLinearization
OnComplete(h, s) == TRUE

INSTANCE LinearizationSearch WITH initial_state <- first_state

-----------------------------------------------------------------------------
\* Check decides linearizability as the reference definition does, although
\* it never searches twice below a configuration that failed once.
Correct ==
  /\ pc = "true" => Linearizable(history)
  /\ pc = "false" => ~Linearizable(history)
=============================================================================
