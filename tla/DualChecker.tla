----------------------------- MODULE DualChecker -----------------------------
(***************************************************************************)
(* LinearizabilityDualCheckerRecursive::Check of lincheck_dual.h: the      *)
(* adapter of dual histories for the shared search.  A blocking operation  *)
(* appears as a request pair and a follow-up pair of events; an ordinary   *)
(* one as Invoke and Response.                                             *)
(***************************************************************************)
EXTENDS Naturals, Sequences, FiniteSets

CONSTANTS
  Op,              \* method names with their arguments
  MethodKind(_),   \* the alternative of DualMethod: "nonblocking", "predicate", "blocking"
  Ordinary(_, _),        \* nonblocking: (op, state) -> [state, value]
  Predicate(_, _, _),    \* predicate: (op, state, results) -> [ok, state]
  Request(_, _, _),      \* blocking: (op, op_id, state) -> state
  FollowUp(_, _, _),     \* blocking: (op, op_id, state) -> [ready, state, value]
  Compare(_, _),         \* operator== of ValueWrapper
  init_state,
  HistorySet

VARIABLES history, frames, linearized, failed_cache, pc

InvokeKinds == {"invoke", "request_invoke", "followup_invoke"}

ResponseKinds == {"response", "request_response", "followup_response"}

\* The response that BuildDualHistoryEventInfo looks for.
ResponseKind(kind) ==
  CASE kind = "invoke" -> "response"
    [] kind = "request_invoke" -> "request_response"
    [] kind = "followup_invoke" -> "followup_response"

IsInvoke(h, i) == h[i].type \in InvokeKinds

IsResponse(h, i) == h[i].type \in ResponseKinds

\* A task goes through a phase at most once, and the phase returns after it was
\* invoked.  This is how RunRound records a round of a dual object.
DualWellFormed(h) ==
  /\ Len(h) \in Nat /\ DOMAIN h = 1..Len(h)
  /\ \A i \in DOMAIN h : h[i].type \in InvokeKinds \cup ResponseKinds /\ h[i].task.op \in Op
  /\ \A i, j \in DOMAIN h :
        h[i].type = h[j].type /\ h[i].task.id = h[j].task.id => i = j
  /\ \A j \in DOMAIN h : IsResponse(h, j) =>
        \E i \in DOMAIN h : /\ i < j /\ IsInvoke(h, i)
                            /\ h[j].type = ResponseKind(h[i].type)
                            /\ h[i].task = h[j].task

\* The responses of the invoke i: same task and of the invoke's kind.
ResponsesOf(h, i) ==
  {j \in DOMAIN h : h[j].type = ResponseKind(h[i].type) /\ h[j].task.id = h[i].task.id}

ResponseIndex(h, i) ==
  IF ResponsesOf(h, i) = {} THEN 0 ELSE CHOOSE j \in ResponsesOf(h, i) : TRUE

\* The result of the response, if there is one.
Results(h, i) == {h[j].task.ret : j \in ResponsesOf(h, i)}

Accepts(h, i, value) == \A r \in Results(h, i) : Compare(value, r)

\* mutant of CanDropPendingInvoke: a follow-up that was invoked has to be ready
CanDropPendingRequest(h, i) == ResponsesOf(h, i) = {} /\ h[i].type # "followup_invoke"

\* Any invoke without a response may be left out of the linearization.
CanDropPendingInvoke(h, i) == ResponsesOf(h, i) = {}

TryApply(h, i, s) ==
  LET op == h[i].task.op
      id == h[i].task.id
      o  == Ordinary(op, s)
      p  == Predicate(op, s, Results(h, i))
      f  == FollowUp(op, id, s)
      no == [ok |-> FALSE, state |-> s]
  IN  CASE h[i].type = "invoke" /\ MethodKind(op) = "nonblocking" ->
             [ok |-> Accepts(h, i, o.value), state |-> o.state]
        [] h[i].type = "invoke" /\ MethodKind(op) = "predicate" ->
             [ok |-> p.ok, state |-> p.state]
        [] h[i].type = "request_invoke" /\ MethodKind(op) = "blocking" ->
             [ok |-> TRUE, state |-> Request(op, id, s)]
        [] h[i].type = "followup_invoke" /\ MethodKind(op) = "blocking" ->
             [ok |-> f.ready /\ Accepts(h, i, f.value), state |-> f.state]
        [] OTHER -> no

\* incomplete_followups: completed requests without FollowUpResponse.
IncompleteFollowUps(h) ==
  {h[i].task : i \in {k \in DOMAIN h :
     /\ h[k].type = "request_invoke"
     /\ ResponsesOf(h, k) # {}
     /\ \A j \in DOMAIN h :
          ~(h[j].type = "followup_response" /\ h[j].task.id = h[k].task.id)}}

\* validate_completed_linearization
OnComplete(h, s) == \A t \in IncompleteFollowUps(h) : MethodKind(t.op) = "blocking"

INSTANCE LinearizationSearch WITH initial_state <- init_state

-----------------------------------------------------------------------------
(***************************************************************************)
(* The reference: the configurations <<entries taken out, state>> that can *)
(* be reached by taking out one minimal operation after the other.         *)
(***************************************************************************)
InvokesOf(h) == {i \in DOMAIN h : h[i].type \in InvokeKinds}

\* No operation outside L returned before i was invoked.
MinimalIn(h, i, L) == \A j \in DOMAIN h : j < i /\ h[j].type \in ResponseKinds => j \in L

Successors(h, c) ==
  UNION {LET r == TryApply(h, i, c[2])
         IN  (IF r.ok THEN {<<c[1] \cup {i} \cup ResponsesOf(h, i), r.state>>} ELSE {})
               \cup (IF ResponsesOf(h, i) = {} THEN {<<c[1] \cup {i}, c[2]>>} ELSE {})
           : i \in {k \in InvokesOf(h) \ c[1] : MinimalIn(h, k, c[1])}}

\* The states in which a linearization of h can end.
FinalStates(h) ==
  LET reach[k \in 0..Cardinality(InvokesOf(h))] ==
        IF k = 0 THEN {<<{}, init_state>>}
        ELSE UNION {Successors(h, c) : c \in reach[k - 1]}
  IN  {c[2] : c \in reach[Cardinality(InvokesOf(h))]}

DualLinearizable(h) == FinalStates(h) # {}

-----------------------------------------------------------------------------
\* Check accepts exactly the histories some choice of dropped pending
\* operations and some real-time order of the others explains.
Correct ==
  /\ pc = "true" => DualLinearizable(history)
  /\ pc = "false" => ~DualLinearizable(history)

\* What docs/dual-verification.md says of a request that returned and was not
\* followed up: the history is accepted only if in some linearization no such
\* request is ready at the end.
ReadyRequestsFollowedUp ==
  pc = "true" =>
    \E s \in FinalStates(history) :
       \A t \in IncompleteFollowUps(history) : ~FollowUp(t.op, t.id, s).ready
=============================================================================
