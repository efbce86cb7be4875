----------------------------- MODULE FollySpecs -----------------------------
(***************************************************************************)
(* The dual specifications of verifying/specs/folly other than the shared  *)
(* mutex (see DualSpecs), and the split stack of verifying/specs, whose    *)
(* tickets are the ids of its pop requests.  All waiters of folly's        *)
(* objects are served first in, first out.                                 *)
(***************************************************************************)
EXTENDS LibcoroSpecs

-----------------------------------------------------------------------------
\* spec::FollyCoroMutex
FollyCoroMutexInit == [locked |-> FALSE, waiting_locks |-> <<>>, ready_locks |-> {}]

FollyTryLock(s) == Outcome([s EXCEPT !.locked = TRUE], <<~s.locked>>)

\* mutant of FollyUnlock: the mutex is opened although it was given away
UnlockAndOpen(s) ==
  Outcome(IF s.waiting_locks = <<>> THEN [s EXCEPT !.locked = FALSE]
          ELSE [locked |-> FALSE, waiting_locks |-> Tail(s.waiting_locks),
                ready_locks |-> s.ready_locks \cup {Head(s.waiting_locks)}], void_v)

\* Ownership goes directly to the oldest waiter.
FollyUnlock(s) ==
  Outcome(IF s.waiting_locks = <<>> THEN [s EXCEPT !.locked = FALSE]
          ELSE [locked |-> TRUE, waiting_locks |-> Tail(s.waiting_locks),
                ready_locks |-> s.ready_locks \cup {Head(s.waiting_locks)}], void_v)

FollyCoroMutexMethod(op, s) ==
  CASE op.name = "try_lock" -> FollyTryLock(s)
    [] op.name = "unlock" -> FollyUnlock(s)

FollyCoroMutexRequest(op, id, s) ==
  IF s.locked THEN [s EXCEPT !.waiting_locks = Append(@, id)]
  ELSE [s EXCEPT !.locked = TRUE, !.ready_locks = @ \cup {id}]

FollyCoroMutexFollowUp(op, id, s) == FollowUpOfSet(s, "ready_locks", id, void_v)

-----------------------------------------------------------------------------
\* spec::FollyCoroBaton
FollyCoroBatonInit == [posted |-> FALSE, waiting |-> <<>>, ready_waits |-> {}]

Post(s) ==
  Outcome([posted |-> TRUE, waiting |-> <<>>,
           ready_waits |-> s.ready_waits \cup Range(s.waiting)], void_v)

BatonReset(s) == Outcome([s EXCEPT !.posted = FALSE], void_v)

FollyCoroBatonMethod(op, s) ==
  CASE op.name = "post" -> Post(s)
    [] op.name = "reset" -> BatonReset(s)

FollyCoroBatonRequest(op, id, s) ==
  IF s.posted THEN [s EXCEPT !.ready_waits = @ \cup {id}]
  ELSE [s EXCEPT !.waiting = Append(@, id)]

FollyCoroBatonFollowUp(op, id, s) == FollowUpOfSet(s, "ready_waits", id, void_v)

-----------------------------------------------------------------------------
\* spec::FollyCoroSharedPromise; value is <<>> until it is set.
FollyCoroSharedPromiseInit == [value |-> <<>>, waiting_gets |-> <<>>, ready_gets |-> {}]

SetValue(op, s) ==
  IF s.value # <<>> THEN Outcome(s, <<FALSE>>)
  ELSE Outcome([value |-> <<op.arg>>, waiting_gets |-> <<>>,
                ready_gets |-> s.ready_gets \cup {<<id, op.arg>> : id \in Range(s.waiting_gets)}],
               <<TRUE>>)

FollyCoroSharedPromiseMethod(op, s) == SetValue(op, s)

FollyCoroSharedPromiseRequest(op, id, s) ==
  IF s.value # <<>> THEN [s EXCEPT !.ready_gets = @ \cup {<<id, s.value[1]>>}]
  ELSE [s EXCEPT !.waiting_gets = Append(@, id)]

FollyCoroSharedPromiseFollowUp(op, id, s) == FollowUpOfMap(s, "ready_gets", id)

-----------------------------------------------------------------------------
\* spec::FollyCoroUnboundedQueue: enqueue and try_dequeue are ordinary methods.
FollyCoroUnboundedQueueInit ==
  [elems |-> <<>>, waiting_dequeues |-> <<>>, ready_dequeues |-> {}]

\* MakeValueVisible of the bounded queue is the body of Enqueue here.
MakeValueVisible(s, v) ==
  IF s.waiting_dequeues = <<>> THEN [s EXCEPT !.elems = Append(@, v)]
  ELSE [s EXCEPT !.waiting_dequeues = Tail(@),
                 !.ready_dequeues = @ \cup {<<Head(s.waiting_dequeues), v>>}]

Enqueue(op, s) == Outcome(MakeValueVisible(s, op.arg), void_v)

TryDequeue(s) ==
  IF s.elems = <<>> THEN Outcome(s, <<0>>)
  ELSE Outcome([s EXCEPT !.elems = Tail(@)], <<Head(s.elems)>>)

FollyCoroUnboundedQueueMethod(op, s) ==
  CASE op.name = "enqueue" -> Enqueue(op, s)
    [] op.name = "try_dequeue" -> TryDequeue(s)

\* mutant of FollyCoroUnboundedQueueRequest: the element stays in the queue
DequeueKeeping(op, id, s) ==
  IF s.elems = <<>> THEN [s EXCEPT !.waiting_dequeues = Append(@, id)]
  ELSE [s EXCEPT !.ready_dequeues = @ \cup {<<id, Head(s.elems)>>}]

FollyCoroUnboundedQueueRequest(op, id, s) ==
  IF s.elems = <<>> THEN [s EXCEPT !.waiting_dequeues = Append(@, id)]
  ELSE [s EXCEPT !.elems = Tail(@), !.ready_dequeues = @ \cup {<<id, Head(s.elems)>>}]

FollyCoroUnboundedQueueFollowUp(op, id, s) == FollowUpOfMap(s, "ready_dequeues", id)

-----------------------------------------------------------------------------
\* spec::FollyCoroBoundedQueue: a value counts against the capacity until a
\* dequeue takes it out of elems.
BoundedCapacity == 2

FollyCoroBoundedQueueInit ==
  [elems |-> <<>>, waiting_enqueues |-> <<>>, waiting_dequeues |-> <<>>,
   completed_enqueues |-> {}, ready_dequeues |-> {},
   available_capacity |-> BoundedCapacity]

\* One turn of the loop of PromoteWaitingEnqueues.
PromoteOne(s) ==
  LET w == Head(s.waiting_enqueues)
  IN  MakeValueVisible([s EXCEPT !.waiting_enqueues = Tail(@),
                                 !.available_capacity = @ - 1,
                                 !.completed_enqueues = @ \cup {w[1]}], w[2])

PromoteWaitingEnqueues(s) ==
  LET turns == Min({Len(s.waiting_enqueues), s.available_capacity})
      after[n \in 0..turns] == IF n = 0 THEN s ELSE PromoteOne(after[n - 1])
  IN  after[turns]

TryEnqueue(op, s) ==
  IF s.available_capacity = 0 THEN Outcome(s, <<FALSE>>)
  ELSE Outcome(PromoteWaitingEnqueues(
                 MakeValueVisible([s EXCEPT !.available_capacity = @ - 1], op.arg)), <<TRUE>>)

BoundedTryDequeue(s) ==
  IF s.elems = <<>> THEN Outcome(s, <<0>>)
  ELSE Outcome(PromoteWaitingEnqueues([s EXCEPT !.elems = Tail(@),
                                                !.available_capacity = @ + 1]),
               <<Head(s.elems)>>)

RequestEnqueue(s, id, v) ==
  IF s.available_capacity = 0
  THEN [s EXCEPT !.waiting_enqueues = Append(@, <<id, v>>)]
  ELSE PromoteWaitingEnqueues(
         MakeValueVisible([s EXCEPT !.available_capacity = @ - 1,
                                    !.completed_enqueues = @ \cup {id}], v))

RequestDequeue(s, id) ==
  IF s.elems = <<>> THEN [s EXCEPT !.waiting_dequeues = Append(@, id)]
  ELSE PromoteWaitingEnqueues([s EXCEPT !.elems = Tail(@),
                                        !.ready_dequeues = @ \cup {<<id, Head(s.elems)>>},
                                        !.available_capacity = @ + 1])

FollyCoroBoundedQueueMethod(op, s) ==
  CASE op.name = "try_enqueue" -> TryEnqueue(op, s)
    [] op.name = "try_dequeue" -> BoundedTryDequeue(s)

FollyCoroBoundedQueueRequest(op, id, s) ==
  CASE op.name = "enqueue" -> RequestEnqueue(s, id, op.arg)
    [] op.name = "dequeue" -> RequestDequeue(s, id)

FollyCoroBoundedQueueFollowUp(op, id, s) ==
  CASE op.name = "enqueue" -> FollowUpOfSet(s, "completed_enqueues", id, void_v)
    [] op.name = "dequeue" -> FollowUpOfMap(s, "ready_dequeues", id)

-----------------------------------------------------------------------------
\* spec::DualStackSplit: ticket_state holds <<ticket, <<>>>> while the pop waits
\* and <<ticket, <<v>>>> once it has its value.
DualStackSplitInit ==
  [deq |-> <<>>, pending_requests |-> <<>>, ticket_state |-> {}, next_ticket |-> 1]

StackPush(op, s) ==
  LET n == Len(s.pending_requests)
      id == s.pending_requests[n]
  IN  Outcome(IF n = 0 THEN [s EXCEPT !.deq = Append(@, op.arg)]
              ELSE [s EXCEPT !.pending_requests = Front(@),
                             !.ticket_state = (@ \ {<<id, <<>>>>}) \cup {<<id, <<op.arg>>>>}],
              void_v)

PopRequest(s) ==
  LET id == s.next_ticket
      r == [s EXCEPT !.next_ticket = @ + 1]
  IN  IF s.deq # <<>>
      THEN [r EXCEPT !.deq = Front(@), !.ticket_state = @ \cup {<<id, <<Last(s.deq)>>>>}]
      ELSE [r EXCEPT !.pending_requests = Append(@, id),
                     !.ticket_state = @ \cup {<<id, <<>>>>}]

\* Where the code answers 0 the poll is not ready.
TryPopFollowUp(s, ticket) ==
  LET hit == {p \in s.ticket_state : p[1] = ticket /\ p[2] # <<>>}
  IN  IF hit = {} THEN NotReady(s)
      ELSE Ready([s EXCEPT !.ticket_state = @ \ hit], (CHOOSE p \in hit : TRUE)[2])

DualStackSplitMethod(op, s) == StackPush(op, s)

DualStackSplitRequest(op, id, s) == PopRequest(s)

DualStackSplitFollowUp(op, id, s) == TryPopFollowUp(s, id)
=============================================================================
